---- MODULE Spec2Model ----
(***************************************************************************)
(* Matchmaking and session-state core of the anonymous chat bot.           *)
(*                                                                         *)
(* State: the module-level dictionaries and lists of utils.py and          *)
(* config.py.  Python dicts are TLA+ functions whose DOMAIN is the key     *)
(* set; Python lists are sequences (duplicates and order kept).            *)
(*                                                                         *)
(* Operations: one action per handler (handlers.py, admin.py) and one for  *)
(* the periodic sweeper (utils.check_waiting_timeouts).  The application   *)
(* dispatches updates one at a time, so a handler is one action.  Calls    *)
(* to the transport (send_message, edit_message_text) are taken to         *)
(* succeed; they change no registry state.                                 *)
(***************************************************************************)
EXTENDS Integers, Sequences, FiniteSets, TLC

(***************************************************************************)
(* Universe and bounds                                                     *)
(***************************************************************************)
Users == {1, 2, 3}

ADMIN_IDS == {3}

\* the first of the thirteen topics
AVAILABLE_TOPICS == <<"arts">>

TopicSet == {AVAILABLE_TOPICS[i] : i \in 1..Len(AVAILABLE_TOPICS)}

TIMEOUT_SECONDS == 45

\* SYSTEM_CONFIG["connection_timeout"] as shipped
DEFAULT_CONNECTION_TIMEOUT == 45

\* SYSTEM_CONFIG["max_group_size"] as shipped
DEFAULT_MAX_GROUP_SIZE == 10

WarnLow == 30

WarnHigh == 35

\* longest topic queue explored (a topic queue can hold repeated ids)
MaxQueueLen == 3

\* last clock value explored
MaxTime == 46

\* number of groups alive at once
MaxGroups == 1

\* number of distinct random suffixes drawn by generate_group_id
RandSpan == 1

RandLow == 1000

\* clock advances explored by the main specification
TickSteps == {TIMEOUT_SECONDS + 1}

\* capacities passed to create_group_chat
GroupSizes == {2}

\* Python None for a user id (falsy, like 0), a topic and a group id
NoUser == 0

NoTopic == "None"

NoGroup == <<>>

ONE_ON_ONE == "one_on_one"

GROUP == "group"

TOPIC == "topic"

NoMode == "None"

VARIABLES
    WAITING_USERS,       \* list of user ids
    WAITING_BY_TOPIC,    \* topic -> list of user ids
    ACTIVE_CONNECTIONS,  \* dict user -> partner
    WAITING_SINCE,       \* dict user -> timestamp
    USER_PREFERENCES,    \* dict user -> [mode, topic, group_id]
    GROUP_CHATS,         \* dict group id -> [creator_id, members, max_size]
    ALL_USERS,           \* key set of the dict of known users
    REVEAL_REQUESTS,     \* dict requester -> [partner_id, status]
    BANNED_USERS,        \* set
    maintenance_mode,    \* SYSTEM_CONFIG["maintenance_mode"]
    now,                 \* time.time()
    last,                \* the last handled event and what it returned or sent
    connection_timeout,  \* SYSTEM_CONFIG["connection_timeout"]
    timed_out_pending,   \* timed_out_users of a sweep that is under way
    warned_for,          \* dict user -> timestamp of the wait the user was warned in
    job_due,             \* the instant the job queue runs check_timeouts next
    max_group_size,      \* SYSTEM_CONFIG["max_group_size"]
    banned_words,        \* SYSTEM_CONFIG["banned_words"], a list
    cancelling,          \* users whose /disconnect found them waiting and has
                         \* not yet taken them off the list
    expect_group_name    \* users whose context.user_data['expect_group_name'] is set

vars == <<WAITING_USERS, WAITING_BY_TOPIC, ACTIVE_CONNECTIONS, WAITING_SINCE,
          USER_PREFERENCES, GROUP_CHATS, ALL_USERS, REVEAL_REQUESTS,
          BANNED_USERS, maintenance_mode, now, last,
          connection_timeout, timed_out_pending, warned_for, job_due,
          max_group_size, banned_words, cancelling,
          expect_group_name>>

(***************************************************************************)
(* Python list and dict primitives                                         *)
(***************************************************************************)
\* x in list
InList(s, x) == \E i \in 1..Len(s) : s[i] = x

\* list.remove(x): drops the first occurrence only
ListRemove(s, x) ==
    IF ~InList(s, x) THEN s
    ELSE LET i == CHOOSE k \in 1..Len(s) :
                     s[k] = x /\ \A j \in 1..(k-1) : s[j] # x
         IN  SubSeq(s, 1, i-1) \o SubSeq(s, i+1, Len(s))

\* if x in list: list.remove(x)
RemoveIfIn(s, x) == IF InList(s, x) THEN ListRemove(s, x) ELSE s

\* del d[k] guarded by "if k in d"
DictDel(d, k) == [x \in (DOMAIN d) \ {k} |-> d[x]]

\* d[k] = v
DictPut(d, k, v) == [x \in (DOMAIN d) \cup {k} |-> IF x = k THEN v ELSE d[x]]

EmptyDict == [x \in {} |-> 0]

(***************************************************************************)
(* Access policy                                                           *)
(***************************************************************************)
is_admin_anyone(user_id) == user_id \in Users

is_admin(user_id) == user_id \in ADMIN_IDS

IsBannedDenied_off(user_id) == FALSE

\* the ban check that opens every gated handler
IsBannedDenied(user_id) == user_id \in BANNED_USERS /\ ~is_admin(user_id)

\* the maintenance check that follows it
IsMaintenanceDenied(user_id) == maintenance_mode /\ ~is_admin(user_id)

Denied(user_id) == IsBannedDenied(user_id) \/ IsMaintenanceDenied(user_id)

(***************************************************************************)
(* Preference store                                                        *)
(***************************************************************************)
DefaultPrefs == [mode |-> ONE_ON_ONE, topic |-> NoTopic, group_id |-> NoGroup]

\* get_user_preference: the dict after the lazy creation
PrefsTouched(prefs, user_id) ==
    IF user_id \in DOMAIN prefs THEN prefs ELSE DictPut(prefs, user_id, DefaultPrefs)

get_user_preference(prefs, user_id) == PrefsTouched(prefs, user_id)[user_id]

\* set_user_preference: a None argument leaves the stored field as it is
set_user_preference(prefs, user_id, mode, topic, group_id) ==
    LET p == get_user_preference(prefs, user_id)
        q == [mode     |-> IF mode # NoMode THEN mode ELSE p.mode,
              topic    |-> IF topic # NoTopic THEN topic ELSE p.topic,
              group_id |-> IF group_id # NoGroup THEN group_id ELSE p.group_id]
    IN  DictPut(prefs, user_id, q)

(***************************************************************************)
(* Observation of the last event                                           *)
(***************************************************************************)
\* op: the handler; u: its caller; p: the other user it names; res: its
\* outcome; g: the group it names; users, warned: whom a sweep notified
\* attempts, sent_count: the deliveries a broadcast tried and how many succeeded
Ev(op, u, p, res, us) ==
    [op |-> op, u |-> u, p |-> p, res |-> res, g |-> NoGroup,
     users |-> us, warned |-> {}, attempts |-> <<>>, sent_count |-> 0]

\* recorded for an event that had nothing to do or only touched a preference
Idle == Ev("none", NoUser, NoUser, "", {})

Init ==
    /\ WAITING_USERS = <<>>
    /\ WAITING_BY_TOPIC = [t \in TopicSet |-> <<>>]
    /\ ACTIVE_CONNECTIONS = EmptyDict
    /\ WAITING_SINCE = EmptyDict
    /\ USER_PREFERENCES = EmptyDict
    /\ GROUP_CHATS = EmptyDict
    /\ ALL_USERS = {}
    /\ REVEAL_REQUESTS = EmptyDict
    /\ BANNED_USERS = {}
    /\ maintenance_mode = FALSE
    /\ now = 0
    /\ last = Idle
    /\ connection_timeout = DEFAULT_CONNECTION_TIMEOUT
    /\ timed_out_pending = {}
    /\ warned_for = EmptyDict
    /\ job_due = 0
    /\ max_group_size = DEFAULT_MAX_GROUP_SIZE
    /\ banned_words = <<>>
    /\ cancelling = {}
    /\ expect_group_name = {}

(***************************************************************************)
(* Matchmaking                                                             *)
(***************************************************************************)
\* potential_partners drawn from the global queue whatever the mode
potential_partners_global(user_id) == RemoveIfIn(WAITING_USERS, user_id)

\* the list find_partner draws from, after it dropped the requester once
potential_partners(user_id) ==
    LET p == get_user_preference(USER_PREFERENCES, user_id)
    IN  IF p.mode = ONE_ON_ONE THEN RemoveIfIn(WAITING_USERS, user_id)
        ELSE IF p.mode = TOPIC /\ p.topic \in TopicSet
             THEN RemoveIfIn(WAITING_BY_TOPIC[p.topic], user_id)
        ELSE <<>>

\* values random.choice may be asked for
ChoiceRange(user_id) ==
    IF potential_partners(user_id) = <<>> THEN {1}
    ELSE 1..Len(potential_partners(user_id))

\* find_partner without its final "partner_id == user_id" check
find_partner_unchecked(user_id, r) ==
    LET pp == potential_partners(user_id)
    IN  IF pp = <<>> THEN NoUser ELSE pp[r]

\* find_partner with the index r that random.choice picks
find_partner(user_id, r) ==
    LET pp == potential_partners(user_id)
    IN  IF pp = <<>> THEN NoUser
        ELSE IF pp[r] = user_id THEN NoUser
        ELSE pp[r]

\* the handler was refused by the ban or maintenance check, or had nothing to do
Quiet(op, u, res) ==
    /\ last' = IF res = "denied" THEN Ev("denied", u, NoUser, "denied", {}) ELSE Idle
    /\ UNCHANGED <<WAITING_USERS, WAITING_BY_TOPIC, ACTIVE_CONNECTIONS,
                   WAITING_SINCE, GROUP_CHATS, REVEAL_REQUESTS, BANNED_USERS,
                   maintenance_mode, now,
                   connection_timeout, timed_out_pending, warned_for, job_due,
                   max_group_size, banned_words, cancelling,
                   expect_group_name>>

\* the handler answered with an error notice and wrote nothing
Refused(op, u, res) ==
    /\ last' = Ev(op, u, NoUser, res, {})
    /\ UNCHANGED <<WAITING_USERS, WAITING_BY_TOPIC, ACTIVE_CONNECTIONS,
                   WAITING_SINCE, GROUP_CHATS, REVEAL_REQUESTS, BANNED_USERS,
                   maintenance_mode, now,
                   connection_timeout, timed_out_pending, warned_for, job_due,
                   max_group_size, banned_words, cancelling,
                   expect_group_name>>

\* queues after connect removed a matched pair from them
QueuesAfterMatch(user_id, partner_id, prefs) ==
    LET p == get_user_preference(prefs, user_id)
        pp == get_user_preference(prefs, partner_id)
    IN  IF p.mode = ONE_ON_ONE
        THEN [g |-> RemoveIfIn(RemoveIfIn(WAITING_USERS, user_id), partner_id),
              t |-> WAITING_BY_TOPIC]
        ELSE IF p.mode = TOPIC /\ p.topic \in TopicSet
        THEN LET t1 == [WAITING_BY_TOPIC EXCEPT
                           ![p.topic] = RemoveIfIn(@, user_id)]
             IN  [g |-> WAITING_USERS,
                  t |-> IF pp.mode = TOPIC /\ pp.topic \in TopicSet
                        THEN [t1 EXCEPT ![pp.topic] = RemoveIfIn(@, partner_id)]
                        ELSE t1]
        ELSE [g |-> WAITING_USERS, t |-> WAITING_BY_TOPIC]

\* connect: the /connect command and the connect_now / try_again buttons
connect(user_id) ==
    /\ ALL_USERS' = ALL_USERS \cup {user_id}
    /\ IF Denied(user_id)
       THEN Quiet("connect", user_id, "denied") /\ UNCHANGED USER_PREFERENCES
       ELSE
       LET prefs == PrefsTouched(USER_PREFERENCES, user_id)
           p == prefs[user_id]
       IN
       IF user_id \in DOMAIN ACTIVE_CONNECTIONS
       THEN Quiet("connect", user_id, "already_connected")
            /\ USER_PREFERENCES' = prefs
       ELSE IF p.mode = GROUP /\ p.group_id \in DOMAIN GROUP_CHATS
       THEN Quiet("connect", user_id, "already_in_group")
            /\ USER_PREFERENCES' = prefs
       ELSE IF InList(WAITING_USERS, user_id)
       THEN Quiet("connect", user_id, "already_waiting")
            /\ USER_PREFERENCES' = prefs
       ELSE IF p.mode = TOPIC /\ p.topic \notin TopicSet
       THEN \* topic_command: sets the mode again and shows the topic menu
            Quiet("connect", user_id, "choose_topic")
            /\ USER_PREFERENCES' =
                   set_user_preference(prefs, user_id, TOPIC, NoTopic, NoGroup)
       ELSE IF p.mode = GROUP
       THEN \* group_command: sets the mode again and shows the group menu
            Quiet("connect", user_id, "group_menu")
            /\ USER_PREFERENCES' =
                   set_user_preference(prefs, user_id, GROUP, NoTopic, NoGroup)
       ELSE
       \E r \in ChoiceRange(user_id) :
         LET partner_id == find_partner(user_id, r) IN
         IF partner_id # NoUser
         THEN LET prefs2 == PrefsTouched(prefs, partner_id)
                  q == QueuesAfterMatch(user_id, partner_id, prefs2)
              IN  /\ ACTIVE_CONNECTIONS' =
                         DictPut(DictPut(ACTIVE_CONNECTIONS, user_id, partner_id),
                                 partner_id, user_id)
                  /\ WAITING_USERS' = q.g
                  /\ WAITING_BY_TOPIC' = q.t
                  /\ WAITING_SINCE' =
                         DictDel(DictDel(WAITING_SINCE, user_id), partner_id)
                  /\ USER_PREFERENCES' = prefs2
                  /\ last' = Ev("connect", user_id, partner_id, "matched", {})
                  /\ UNCHANGED <<GROUP_CHATS, REVEAL_REQUESTS, BANNED_USERS,
                                 maintenance_mode, now,
                                 connection_timeout, timed_out_pending, warned_for, job_due,
                                 max_group_size, banned_words, cancelling,
                                 expect_group_name>>
         ELSE /\ IF p.mode = ONE_ON_ONE
                 THEN /\ WAITING_USERS' = Append(WAITING_USERS, user_id)
                      /\ UNCHANGED WAITING_BY_TOPIC
                 ELSE /\ Len(WAITING_BY_TOPIC[p.topic]) < MaxQueueLen
                      /\ WAITING_BY_TOPIC' = [WAITING_BY_TOPIC EXCEPT
                                                ![p.topic] = Append(@, user_id)]
                      /\ UNCHANGED WAITING_USERS
              /\ WAITING_SINCE' = DictPut(WAITING_SINCE, user_id, now)
              /\ USER_PREFERENCES' = prefs
              /\ last' = Ev("connect", user_id, NoUser, "enqueued", {})
              /\ UNCHANGED <<ACTIVE_CONNECTIONS, GROUP_CHATS, REVEAL_REQUESTS,
                             BANNED_USERS, maintenance_mode, now,
                             connection_timeout, timed_out_pending, warned_for, job_due,
                             max_group_size, banned_words, cancelling,
                             expect_group_name>>

\* disconnect_users
disconnect_users(user_id, partner_id) ==
    /\ ACTIVE_CONNECTIONS' = DictDel(DictDel(ACTIVE_CONNECTIONS, user_id), partner_id)
    /\ REVEAL_REQUESTS' = DictDel(DictDel(REVEAL_REQUESTS, user_id), partner_id)
    /\ USER_PREFERENCES' =
           set_user_preference(
               set_user_preference(USER_PREFERENCES, user_id,
                                   ONE_ON_ONE, NoTopic, NoGroup),
               partner_id, ONE_ON_ONE, NoTopic, NoGroup)

\* first topic, in dict order, whose waiting list holds the user
FirstTopicOf(user_id) ==
    LET i == CHOOSE k \in 1..Len(AVAILABLE_TOPICS) :
                 /\ InList(WAITING_BY_TOPIC[AVAILABLE_TOPICS[k]], user_id)
                 /\ \A j \in 1..(k-1) :
                        ~InList(WAITING_BY_TOPIC[AVAILABLE_TOPICS[j]], user_id)
    IN  AVAILABLE_TOPICS[i]

\* disconnect: the /disconnect command
disconnect(user_id) ==
    /\ ALL_USERS' = ALL_USERS \cup {user_id}
    /\ IF Denied(user_id)
       THEN Quiet("disconnect", user_id, "denied") /\ UNCHANGED USER_PREFERENCES
       ELSE IF user_id \in DOMAIN ACTIVE_CONNECTIONS
       THEN /\ disconnect_users(user_id, ACTIVE_CONNECTIONS[user_id])
            /\ last' = Ev("disconnect", user_id, ACTIVE_CONNECTIONS[user_id],
                          "disconnected", {})
            /\ UNCHANGED <<WAITING_USERS, WAITING_BY_TOPIC, WAITING_SINCE,
                           GROUP_CHATS, BANNED_USERS, maintenance_mode, now,
                           connection_timeout, timed_out_pending, warned_for, job_due,
                           max_group_size, banned_words, cancelling,
                           expect_group_name>>
       ELSE IF InList(WAITING_USERS, user_id)
       THEN /\ WAITING_USERS' = ListRemove(WAITING_USERS, user_id)
            /\ WAITING_SINCE' = DictDel(WAITING_SINCE, user_id)
            /\ last' = Ev("disconnect", user_id, NoUser, "cancelled", {})
            /\ UNCHANGED <<WAITING_BY_TOPIC, ACTIVE_CONNECTIONS, USER_PREFERENCES,
                           GROUP_CHATS, REVEAL_REQUESTS, BANNED_USERS,
                           maintenance_mode, now,
                           connection_timeout, timed_out_pending, warned_for, job_due,
                           max_group_size, banned_words, cancelling,
                           expect_group_name>>
       ELSE IF \E t \in TopicSet : InList(WAITING_BY_TOPIC[t], user_id)
       THEN /\ WAITING_BY_TOPIC' = [WAITING_BY_TOPIC EXCEPT
                  ![FirstTopicOf(user_id)] = ListRemove(@, user_id)]
            /\ WAITING_SINCE' = DictDel(WAITING_SINCE, user_id)
            /\ last' = Ev("disconnect", user_id, NoUser, "cancelled_topic", {})
            /\ UNCHANGED <<WAITING_USERS, ACTIVE_CONNECTIONS, USER_PREFERENCES,
                           GROUP_CHATS, REVEAL_REQUESTS, BANNED_USERS,
                           maintenance_mode, now,
                           connection_timeout, timed_out_pending, warned_for, job_due,
                           max_group_size, banned_words, cancelling,
                           expect_group_name>>
       ELSE Quiet("disconnect", user_id, "nothing") /\ UNCHANGED USER_PREFERENCES

\* disconnect of a waiting user up to its first await: it found the user in
\* WAITING_USERS and shows the steps of its animation
disconnect_begin(user_id) ==
    /\ ~Denied(user_id)
    /\ user_id \notin DOMAIN ACTIVE_CONNECTIONS
    /\ InList(WAITING_USERS, user_id)
    /\ ALL_USERS' = ALL_USERS \cup {user_id}
    /\ cancelling' = cancelling \cup {user_id}
    /\ last' = Ev("disconnect", user_id, NoUser, "cancelling", {})
    /\ UNCHANGED <<WAITING_USERS, WAITING_BY_TOPIC, ACTIVE_CONNECTIONS,
                   WAITING_SINCE, USER_PREFERENCES, GROUP_CHATS,
                   REVEAL_REQUESTS, BANNED_USERS, maintenance_mode, now,
                   connection_timeout, timed_out_pending, warned_for, job_due,
                   max_group_size, banned_words, expect_group_name>>

\* disconnect of a waiting user resumed after the animation:
\* WAITING_USERS.remove(user_id) raises ValueError when the user is no
\* longer in the list, and the handler ends there
disconnect_finish(user_id) ==
    /\ user_id \in cancelling
    /\ cancelling' = cancelling \ {user_id}
    /\ IF InList(WAITING_USERS, user_id)
       THEN /\ WAITING_USERS' = ListRemove(WAITING_USERS, user_id)
            /\ WAITING_SINCE' = DictDel(WAITING_SINCE, user_id)
            /\ last' = Ev("disconnect", user_id, NoUser, "cancelled", {})
       ELSE /\ last' = Ev("disconnect", user_id, NoUser, "error", {})
            /\ UNCHANGED <<WAITING_USERS, WAITING_SINCE>>
    /\ UNCHANGED <<WAITING_BY_TOPIC, ACTIVE_CONNECTIONS, USER_PREFERENCES,
                   GROUP_CHATS, ALL_USERS, REVEAL_REQUESTS, BANNED_USERS,
                   maintenance_mode, now,
                   connection_timeout, timed_out_pending, warned_for, job_due,
                   max_group_size, banned_words, expect_group_name>>

\* handle_callback_query, data = "cancel_search"
cancel_search(user_id) ==
    /\ ALL_USERS' = ALL_USERS \cup {user_id}
    /\ IF Denied(user_id)
       THEN Quiet("cancel_search", user_id, "denied") /\ UNCHANGED USER_PREFERENCES
       ELSE LET prefs == PrefsTouched(USER_PREFERENCES, user_id)
                p == prefs[user_id]
            IN  /\ WAITING_USERS' = RemoveIfIn(WAITING_USERS, user_id)
                /\ WAITING_BY_TOPIC' =
                       IF p.mode = TOPIC /\ p.topic \in TopicSet
                       THEN [WAITING_BY_TOPIC EXCEPT
                                ![p.topic] = RemoveIfIn(@, user_id)]
                       ELSE WAITING_BY_TOPIC
                /\ WAITING_SINCE' = DictDel(WAITING_SINCE, user_id)
                /\ USER_PREFERENCES' = prefs
                /\ last' = Ev("cancel_search", user_id, NoUser, "cancelled", {})
                /\ UNCHANGED <<ACTIVE_CONNECTIONS, GROUP_CHATS, REVEAL_REQUESTS,
                               BANNED_USERS, maintenance_mode, now,
                               connection_timeout, timed_out_pending, warned_for, job_due,
                               max_group_size, banned_words, cancelling,
                               expect_group_name>>

\* a handler that only writes the caller's preference
PrefOnly(op, user_id, mode, topic, group_id) ==
    /\ ALL_USERS' = ALL_USERS \cup {user_id}
    /\ IF Denied(user_id)
       THEN Quiet(op, user_id, "denied") /\ UNCHANGED USER_PREFERENCES
       ELSE /\ USER_PREFERENCES' =
                   set_user_preference(USER_PREFERENCES, user_id, mode, topic, group_id)
            /\ Quiet(op, user_id, "ok")

\* handle_callback_query, data = "mode_one_on_one"
mode_one_on_one(user_id) == PrefOnly("mode_one_on_one", user_id, ONE_ON_ONE, NoTopic, NoGroup)

\* handle_callback_query, data = "mode_topic"; also the /topic command
mode_topic(user_id) == PrefOnly("mode_topic", user_id, TOPIC, NoTopic, NoGroup)

\* handle_callback_query, data = "mode_group"; also the /group command
mode_group(user_id) == PrefOnly("mode_group", user_id, GROUP, NoTopic, NoGroup)

\* handle_callback_query, data = "topic_<t>"
topic_select(user_id, t) ==
    IF t \in TopicSet
    THEN PrefOnly("topic_select", user_id, TOPIC, t, NoGroup)
    ELSE /\ ALL_USERS' = ALL_USERS \cup {user_id}
         /\ Quiet("topic_select", user_id, "ignored")
         /\ UNCHANGED USER_PREFERENCES

\* handle_callback_query, data = "group_create": the handler notes that the
\* user's next message is to be the name of the group, and asks for it
group_create(user_id) ==
    /\ ALL_USERS' = ALL_USERS \cup {user_id}
    /\ IF Denied(user_id)
       THEN /\ Quiet("group_create", user_id, "denied")
            /\ UNCHANGED USER_PREFERENCES
       ELSE /\ expect_group_name' = expect_group_name \cup {user_id}
            /\ last' = Ev("group_create", user_id, NoUser, "expect_group_name", {})
            /\ UNCHANGED <<WAITING_USERS, WAITING_BY_TOPIC, ACTIVE_CONNECTIONS,
                           WAITING_SINCE, USER_PREFERENCES, GROUP_CHATS,
                           REVEAL_REQUESTS, BANNED_USERS, maintenance_mode, now,
                           connection_timeout, timed_out_pending, warned_for,
                           job_due, max_group_size, banned_words, cancelling>>

(***************************************************************************)
(* Group registry                                                          *)
(***************************************************************************)
\* generate_group_id: "grp_<int(time.time())>_<random 1000..9999>"
generate_group_id(r) == <<now, r>>

RandomSuffixes == RandLow..(RandLow + RandSpan - 1)

\* is_full with > in place of >=
is_full_strict(group) == Cardinality(group.members) > group.max_size

\* GroupChat.is_full
is_full(group) == Cardinality(group.members) >= group.max_size

\* create_group_chat: the registry and the preferences it leaves
GroupCreated(groups, prefs, creator_id, max_size, group_id) ==
    [groups |-> DictPut(groups, group_id,
                        [creator_id |-> creator_id,
                         members |-> {creator_id},
                         max_size |-> max_size]),
     prefs  |-> set_user_preference(prefs, creator_id, GROUP, NoTopic, group_id)]

\* create_group_chat(creator_id, name, max_size)
create_group_chat(creator_id, max_size, r) ==
    LET group_id == generate_group_id(r)
        c == GroupCreated(GROUP_CHATS, USER_PREFERENCES, creator_id, max_size, group_id)
    IN  /\ Cardinality(DOMAIN GROUP_CHATS \cup {group_id}) <= MaxGroups
        /\ GROUP_CHATS' = c.groups
        /\ USER_PREFERENCES' = c.prefs
        /\ last' = [Ev("create_group", creator_id, NoUser, "created", {})
                       EXCEPT !.g = group_id]
        /\ UNCHANGED <<WAITING_USERS, WAITING_BY_TOPIC, ACTIVE_CONNECTIONS,
                       WAITING_SINCE, ALL_USERS, REVEAL_REQUESTS, BANNED_USERS,
                       maintenance_mode, now,
                       connection_timeout, timed_out_pending, warned_for, job_due,
                       max_group_size, banned_words, cancelling,
                       expect_group_name>>

\* add_to_group(user_id, group_id): ok is its return value
add_to_group(groups, prefs, user_id, group_id) ==
    IF group_id \in DOMAIN groups /\ ~is_full(groups[group_id])
    THEN [ok |-> TRUE,
          groups |-> [groups EXCEPT ![group_id].members = @ \cup {user_id}],
          prefs  |-> set_user_preference(prefs, user_id, GROUP, NoTopic, group_id)]
    ELSE [ok |-> FALSE, groups |-> groups, prefs |-> prefs]

\* handle_callback_query, data = "join_group_<group_id>"
join_group(user_id, group_id) ==
    /\ ALL_USERS' = ALL_USERS \cup {user_id}
    /\ IF Denied(user_id)
       THEN Quiet("join_group", user_id, "denied") /\ UNCHANGED USER_PREFERENCES
       ELSE IF group_id \in DOMAIN GROUP_CHATS /\ ~is_full(GROUP_CHATS[group_id])
       THEN LET a == add_to_group(GROUP_CHATS, USER_PREFERENCES, user_id, group_id)
            IN  /\ GROUP_CHATS' = a.groups
                /\ USER_PREFERENCES' = a.prefs
                /\ last' = [Ev("join_group", user_id, NoUser,
                                IF a.ok THEN "joined" ELSE "failed", {})
                               EXCEPT !.g = group_id]
                /\ UNCHANGED <<WAITING_USERS, WAITING_BY_TOPIC, ACTIVE_CONNECTIONS,
                               WAITING_SINCE, REVEAL_REQUESTS, BANNED_USERS,
                               maintenance_mode, now,
                               connection_timeout, timed_out_pending, warned_for, job_due,
                               max_group_size, banned_words, cancelling,
                               expect_group_name>>
       ELSE Quiet("join_group", user_id, "gone_or_full") /\ UNCHANGED USER_PREFERENCES

\* leave_group that never reassigns the creator
leave_group_keep(groups, prefs, user_id, group_id, heir) ==
    IF group_id \in DOMAIN groups /\ user_id \in groups[group_id].members
    THEN LET members == groups[group_id].members \ {user_id}
             prefs2 == set_user_preference(prefs, user_id, ONE_ON_ONE, NoTopic, NoGroup)
         IN  IF members = {}
             THEN [res |-> "deleted", groups |-> DictDel(groups, group_id),
                   prefs |-> prefs2]
             ELSE [res |-> "left",
                   groups |-> [groups EXCEPT ![group_id].members = members],
                   prefs |-> prefs2]
    ELSE [res |-> "False", groups |-> groups, prefs |-> prefs]

\* leave_group(user_id, group_id); heir is the member next(iter(members)) yields
leave_group(groups, prefs, user_id, group_id, heir) ==
    IF group_id \in DOMAIN groups /\ user_id \in groups[group_id].members
    THEN LET members == groups[group_id].members \ {user_id}
             prefs2 == set_user_preference(prefs, user_id, ONE_ON_ONE, NoTopic, NoGroup)
         IN  IF members = {}
             THEN [res |-> "deleted", groups |-> DictDel(groups, group_id),
                   prefs |-> prefs2]
             ELSE IF user_id = groups[group_id].creator_id
             THEN [res |-> "transferred",
                   groups |-> [groups EXCEPT ![group_id].members = members,
                                             ![group_id].creator_id = heir],
                   prefs |-> prefs2]
             ELSE [res |-> "left",
                   groups |-> [groups EXCEPT ![group_id].members = members],
                   prefs |-> prefs2]
    ELSE [res |-> "False", groups |-> groups, prefs |-> prefs]

\* the members next(iter(members)) can yield once user_id is removed
Heirs(groups, user_id, group_id) ==
    IF group_id \in DOMAIN groups /\ groups[group_id].members \ {user_id} # {}
    THEN groups[group_id].members \ {user_id}
    ELSE {NoUser}

\* leave_command: the /leave command (it has no ban or maintenance check)
leave_command(user_id) ==
    LET prefs == PrefsTouched(USER_PREFERENCES, user_id)
        p == prefs[user_id]
    IN  IF p.mode = GROUP /\ p.group_id \in DOMAIN GROUP_CHATS
        THEN \E heir \in Heirs(GROUP_CHATS, user_id, p.group_id) :
               LET l == leave_group(GROUP_CHATS, prefs, user_id, p.group_id, heir)
               IN  /\ GROUP_CHATS' = l.groups
                   /\ USER_PREFERENCES' = l.prefs
                   /\ last' = [Ev("leave", user_id,
                                  IF l.res = "transferred" THEN heir ELSE NoUser,
                                  l.res, {})
                                  EXCEPT !.g = p.group_id]
                   /\ UNCHANGED <<WAITING_USERS, WAITING_BY_TOPIC,
                                  ACTIVE_CONNECTIONS, WAITING_SINCE, ALL_USERS,
                                  REVEAL_REQUESTS, BANNED_USERS,
                                  maintenance_mode, now,
                                  connection_timeout, timed_out_pending, warned_for, job_due,
                                  max_group_size, banned_words, cancelling,
                                  expect_group_name>>
        ELSE /\ Quiet("leave", user_id, "not_in_group")
             /\ USER_PREFERENCES' = prefs
             /\ UNCHANGED ALL_USERS

(***************************************************************************)
(* Reveal negotiation                                                      *)
(***************************************************************************)
\* reveal_identity: the /reveal command and the request_reveal button
reveal_identity(user_id) ==
    /\ ALL_USERS' = ALL_USERS \cup {user_id}
    /\ UNCHANGED USER_PREFERENCES
    /\ IF Denied(user_id)
       THEN Quiet("reveal", user_id, "denied")
       ELSE IF user_id \notin DOMAIN ACTIVE_CONNECTIONS
       THEN Refused("reveal", user_id, "not_connected")
       ELSE IF user_id \in DOMAIN REVEAL_REQUESTS
       THEN Refused("reveal", user_id, "already_pending")
       ELSE /\ REVEAL_REQUESTS' =
                   DictPut(REVEAL_REQUESTS, user_id,
                           [partner_id |-> ACTIVE_CONNECTIONS[user_id],
                            status |-> "pending"])
            /\ last' = Ev("reveal", user_id, ACTIVE_CONNECTIONS[user_id],
                          "requested", {})
            /\ UNCHANGED <<WAITING_USERS, WAITING_BY_TOPIC, ACTIVE_CONNECTIONS,
                           WAITING_SINCE, GROUP_CHATS, BANNED_USERS,
                           maintenance_mode, now,
                           connection_timeout, timed_out_pending, warned_for, job_due,
                           max_group_size, banned_words, cancelling,
                           expect_group_name>>

\* handle_callback_query, data = "reveal_yes_<requester_id>"
reveal_yes(user_id, requester_id) ==
    /\ ALL_USERS' = ALL_USERS \cup {user_id}
    /\ UNCHANGED USER_PREFERENCES
    /\ IF Denied(user_id)
       THEN Quiet("reveal_yes", user_id, "denied")
       ELSE IF /\ requester_id \in DOMAIN REVEAL_REQUESTS
               /\ REVEAL_REQUESTS[requester_id].partner_id = user_id
               /\ requester_id \in ALL_USERS'
               /\ user_id \in ALL_USERS'
       THEN /\ REVEAL_REQUESTS' = DictDel(REVEAL_REQUESTS, requester_id)
            /\ last' = Ev("reveal_yes", user_id, requester_id, "revealed", {})
            /\ UNCHANGED <<WAITING_USERS, WAITING_BY_TOPIC, ACTIVE_CONNECTIONS,
                           WAITING_SINCE, GROUP_CHATS, BANNED_USERS,
                           maintenance_mode, now,
                           connection_timeout, timed_out_pending, warned_for, job_due,
                           max_group_size, banned_words, cancelling,
                           expect_group_name>>
       ELSE Quiet("reveal_yes", user_id, "no_such_request")

\* a decline that marks the request declined and keeps it in the map
reveal_no_keep(user_id, requester_id) ==
    /\ ALL_USERS' = ALL_USERS \cup {user_id}
    /\ UNCHANGED USER_PREFERENCES
    /\ IF Denied(user_id)
       THEN Quiet("reveal_no", user_id, "denied")
       ELSE IF requester_id \in DOMAIN REVEAL_REQUESTS
       THEN /\ REVEAL_REQUESTS' =
                   [REVEAL_REQUESTS EXCEPT ![requester_id].status = "declined"]
            /\ last' = Ev("reveal_no", user_id, requester_id, "declined", {})
            /\ UNCHANGED <<WAITING_USERS, WAITING_BY_TOPIC, ACTIVE_CONNECTIONS,
                           WAITING_SINCE, GROUP_CHATS, BANNED_USERS,
                           maintenance_mode, now,
                           connection_timeout, timed_out_pending, warned_for, job_due,
                           max_group_size, banned_words, cancelling,
                           expect_group_name>>
       ELSE Quiet("reveal_no", user_id, "no_such_request")

\* handle_callback_query, data = "reveal_no_<requester_id>"
reveal_no(user_id, requester_id) ==
    /\ ALL_USERS' = ALL_USERS \cup {user_id}
    /\ UNCHANGED USER_PREFERENCES
    /\ IF Denied(user_id)
       THEN Quiet("reveal_no", user_id, "denied")
       ELSE IF requester_id \in DOMAIN REVEAL_REQUESTS
       THEN /\ REVEAL_REQUESTS' = DictDel(REVEAL_REQUESTS, requester_id)
            /\ last' = Ev("reveal_no", user_id, requester_id, "declined", {})
            /\ UNCHANGED <<WAITING_USERS, WAITING_BY_TOPIC, ACTIVE_CONNECTIONS,
                           WAITING_SINCE, GROUP_CHATS, BANNED_USERS,
                           maintenance_mode, now,
                           connection_timeout, timed_out_pending, warned_for, job_due,
                           max_group_size, banned_words, cancelling,
                           expect_group_name>>
       ELSE Quiet("reveal_no", user_id, "no_such_request")

(***************************************************************************)
(* Admin operations (handle_admin_callback)                                *)
(***************************************************************************)
\* the callback of a caller who is not an admin is refused
NotAdmin(op, admin_id) ==
    /\ ~is_admin(admin_id)
    /\ Quiet(op, admin_id, "no_permission")
    /\ UNCHANGED <<USER_PREFERENCES, ALL_USERS>>

\* group registry after ban_user took the target out of every group
GroupsWithout(groups, target_user_id) ==
    LET kept == {g \in DOMAIN groups : groups[g].members \ {target_user_id} # {}}
    IN  [g \in kept |-> [groups[g] EXCEPT !.members = @ \ {target_user_id}]]

\* ban_user(admin_id, target_user_id)
ban_user(admin_id, target_user_id) ==
    IF target_user_id \notin ALL_USERS
    THEN Quiet("ban", admin_id, "False") /\ UNCHANGED <<USER_PREFERENCES, ALL_USERS>>
    ELSE /\ BANNED_USERS' = BANNED_USERS \cup {target_user_id}
         /\ ACTIVE_CONNECTIONS' =
                IF target_user_id \in DOMAIN ACTIVE_CONNECTIONS
                THEN DictDel(DictDel(ACTIVE_CONNECTIONS, target_user_id),
                             ACTIVE_CONNECTIONS[target_user_id])
                ELSE ACTIVE_CONNECTIONS
         /\ WAITING_USERS' = RemoveIfIn(WAITING_USERS, target_user_id)
         /\ WAITING_BY_TOPIC' =
                [t \in TopicSet |-> RemoveIfIn(WAITING_BY_TOPIC[t], target_user_id)]
         /\ GROUP_CHATS' = GroupsWithout(GROUP_CHATS, target_user_id)
         /\ last' = Ev("ban", admin_id, target_user_id, "True", {})
         /\ UNCHANGED <<WAITING_SINCE, USER_PREFERENCES, ALL_USERS,
                        REVEAL_REQUESTS, maintenance_mode, now,
                        connection_timeout, timed_out_pending, warned_for, job_due,
                        max_group_size, banned_words, cancelling,
                        expect_group_name>>

\* handle_admin_callback, data = "admin_ban_<target>"
admin_ban(admin_id, target_user_id) ==
    \/ NotAdmin("ban", admin_id)
    \/ is_admin(admin_id) /\ ban_user(admin_id, target_user_id)

\* handle_admin_callback, data = "admin_unban_<target>" (unban_user)
admin_unban(admin_id, target_user_id) ==
    \/ NotAdmin("unban", admin_id)
    \/ /\ is_admin(admin_id)
       /\ IF target_user_id \in BANNED_USERS
          THEN /\ BANNED_USERS' = BANNED_USERS \ {target_user_id}
               /\ last' = Ev("unban", admin_id, target_user_id, "True", {})
               /\ UNCHANGED <<WAITING_USERS, WAITING_BY_TOPIC, ACTIVE_CONNECTIONS,
                              WAITING_SINCE, USER_PREFERENCES, GROUP_CHATS,
                              ALL_USERS, REVEAL_REQUESTS, maintenance_mode, now,
                              connection_timeout, timed_out_pending, warned_for, job_due,
                              max_group_size, banned_words, cancelling,
                              expect_group_name>>
          ELSE Quiet("unban", admin_id, "False")
               /\ UNCHANGED <<USER_PREFERENCES, ALL_USERS>>

\* orders in which "for user_id in list(ACTIVE_CONNECTIONS.keys())" can run;
\* the dict's insertion order is not kept by the model, so every order is taken
KeyOrders(S) ==
    {s \in [1..Cardinality(S) -> S] :
        \A i, j \in 1..Cardinality(S) : i # j => s[i] # s[j]}

\* a maintenance switch that disconnects nobody
MaintenanceDisconnect_none(ac, keys) == ac

\* the loop of toggle_maintenance_mode over a snapshot of the keys
RECURSIVE MaintenanceDisconnect(_, _)
MaintenanceDisconnect(ac, keys) ==
    IF keys = <<>> THEN ac
    ELSE LET user_id == Head(keys)
             partner_id == IF user_id \in DOMAIN ac THEN ac[user_id] ELSE NoUser
         IN  IF /\ user_id \notin ADMIN_IDS
                /\ partner_id # NoUser
                /\ partner_id \notin ADMIN_IDS
             THEN MaintenanceDisconnect(DictDel(DictDel(ac, user_id), partner_id),
                                        Tail(keys))
             ELSE MaintenanceDisconnect(ac, Tail(keys))

\* toggle_maintenance_mode(admin_id, enable)
toggle_maintenance_mode(admin_id, enable) ==
    /\ maintenance_mode' = enable
    /\ IF enable
       THEN \E keys \in KeyOrders(DOMAIN ACTIVE_CONNECTIONS) :
                ACTIVE_CONNECTIONS' = MaintenanceDisconnect(ACTIVE_CONNECTIONS, keys)
       ELSE UNCHANGED ACTIVE_CONNECTIONS
    /\ last' = Ev(IF enable THEN "maint_on" ELSE "maint_off", admin_id, NoUser, "", {})
    /\ UNCHANGED <<WAITING_USERS, WAITING_BY_TOPIC, WAITING_SINCE,
                   USER_PREFERENCES, GROUP_CHATS, ALL_USERS, REVEAL_REQUESTS,
                   BANNED_USERS, now,
                   connection_timeout, timed_out_pending, warned_for, job_due,
                   max_group_size, banned_words, cancelling,
                   expect_group_name>>

\* handle_admin_callback, data = "admin_maint_on"
admin_maint_on(admin_id) ==
    \/ NotAdmin("maint_on", admin_id)
    \/ is_admin(admin_id) /\ toggle_maintenance_mode(admin_id, TRUE)

\* handle_admin_callback, data = "admin_maint_off"
admin_maint_off(admin_id) ==
    \/ NotAdmin("maint_off", admin_id)
    \/ is_admin(admin_id) /\ toggle_maintenance_mode(admin_id, FALSE)

(***************************************************************************)
(* Timeout sweeper                                                         *)
(***************************************************************************)
Elapsed(user_id) == now - WAITING_SINCE[user_id]

\* users the first loop of check_waiting_timeouts warns
InWarningBand ==
    {u \in DOMAIN WAITING_SINCE : WarnLow < Elapsed(u) /\ Elapsed(u) < WarnHigh}

\* timed_out_users
timed_out_users ==
    {u \in DOMAIN WAITING_SINCE :
        u \notin InWarningBand /\ Elapsed(u) > TIMEOUT_SECONDS}

\* list.remove of every user of S that is in the list
RECURSIVE RemoveEach(_, _)
RemoveEach(s, S) ==
    IF S = {} THEN s
    ELSE LET x == CHOOSE y \in S : TRUE
         IN  RemoveEach(RemoveIfIn(s, x), S \ {x})

RECURSIVE TouchAll(_, _)
TouchAll(prefs, S) ==
    IF S = {} THEN prefs
    ELSE LET x == CHOOSE y \in S : TRUE
         IN  TouchAll(PrefsTouched(prefs, x), S \ {x})

\* the record of who was sent the 'still searching' warning, and for which wait
WarnedAfter(warn) ==
    [u \in DOMAIN warned_for \cup warn |->
        IF u \in warn THEN WAITING_SINCE[u] ELSE warned_for[u]]

\* check_waiting_timeouts: one pass of the sweeper
check_waiting_timeouts ==
    LET out == timed_out_users
        prefs == TouchAll(USER_PREFERENCES, out)
        ofTopic(t) == {u \in out : prefs[u].mode = TOPIC /\ prefs[u].topic = t}
    IN  /\ WAITING_USERS' = RemoveEach(WAITING_USERS, out)
        /\ WAITING_BY_TOPIC' =
               [t \in TopicSet |-> RemoveEach(WAITING_BY_TOPIC[t], ofTopic(t))]
        /\ WAITING_SINCE' = [u \in (DOMAIN WAITING_SINCE) \ out |-> WAITING_SINCE[u]]
        /\ USER_PREFERENCES' = prefs
        /\ last' = IF out = {} /\ InWarningBand = {} THEN Idle
                   ELSE [Ev("sweep", NoUser, NoUser, "", out)
                            EXCEPT !.warned = InWarningBand]
        /\ warned_for' = WarnedAfter(InWarningBand)
        /\ UNCHANGED <<ACTIVE_CONNECTIONS, GROUP_CHATS, ALL_USERS, REVEAL_REQUESTS,
                       BANNED_USERS, maintenance_mode, now,
                       connection_timeout, timed_out_pending,
                       max_group_size, banned_words, cancelling,
                       expect_group_name>>

\* the body of the second loop for one user of timed_out_users
EvictOne(user_id) ==
    LET prefs == PrefsTouched(USER_PREFERENCES, user_id)
        p == prefs[user_id]
    IN  /\ WAITING_USERS' = RemoveIfIn(WAITING_USERS, user_id)
        /\ WAITING_BY_TOPIC' =
               IF p.mode = TOPIC /\ p.topic \in TopicSet
               THEN [WAITING_BY_TOPIC EXCEPT ![p.topic] = RemoveIfIn(@, user_id)]
               ELSE WAITING_BY_TOPIC
        /\ WAITING_SINCE' = DictDel(WAITING_SINCE, user_id)
        /\ USER_PREFERENCES' = prefs
        /\ last' = Ev("timeout", NoUser, user_id, "", {user_id})
        /\ UNCHANGED <<ACTIVE_CONNECTIONS, GROUP_CHATS, ALL_USERS, REVEAL_REQUESTS,
                       BANNED_USERS, maintenance_mode, now, connection_timeout>>

\* check_waiting_timeouts from its start to its first await: the first loop
\* decides over a snapshot of WAITING_SINCE; it suspends in the first loop
\* when it sends a warning, else after the first removal of the second loop.
\* The loops go in the insertion order of WAITING_SINCE, which the
\* dictionary of the model does not keep: any order is taken.
sweep_begin ==
    /\ timed_out_pending = {}
    /\ LET out == timed_out_users
           warn == InWarningBand
       IN  IF warn # {}
           THEN /\ timed_out_pending' = out
                /\ warned_for' = WarnedAfter(warn)
                /\ last' = [Ev("sweep", NoUser, NoUser, "", {}) EXCEPT !.warned = warn]
                /\ UNCHANGED <<WAITING_USERS, WAITING_BY_TOPIC, ACTIVE_CONNECTIONS,
                               WAITING_SINCE, USER_PREFERENCES, GROUP_CHATS,
                               ALL_USERS, REVEAL_REQUESTS, BANNED_USERS,
                               maintenance_mode, now, connection_timeout, job_due,
                               max_group_size, banned_words, cancelling,
                               expect_group_name>>
           ELSE IF out = {}
           THEN /\ last' = Idle
                /\ UNCHANGED <<WAITING_USERS, WAITING_BY_TOPIC, ACTIVE_CONNECTIONS,
                               WAITING_SINCE, USER_PREFERENCES, GROUP_CHATS,
                               ALL_USERS, REVEAL_REQUESTS, BANNED_USERS,
                               maintenance_mode, now, connection_timeout,
                               timed_out_pending, warned_for, job_due,
                               max_group_size, banned_words, cancelling,
                               expect_group_name>>
           ELSE \E u \in out :
                    /\ EvictOne(u)
                    /\ timed_out_pending' = out \ {u}
                    /\ UNCHANGED <<warned_for, job_due,
                                   max_group_size, banned_words, cancelling,
                                   expect_group_name>>

\* check_waiting_timeouts resumed: the second loop handles the next user
sweep_evict(user_id) ==
    /\ user_id \in timed_out_pending
    /\ EvictOne(user_id)
    /\ timed_out_pending' = timed_out_pending \ {user_id}
    /\ UNCHANGED <<warned_for, job_due,
                   max_group_size, banned_words, cancelling,
                   expect_group_name>>

\* admin_system_config refusing a user without the system_mgmt privilege,
\* which every admin has and nobody else
ConfigRefused(user_id) ==
    /\ ~is_admin(user_id)
    /\ last' = Ev("no_permission", user_id, NoUser, "no_permission", {})
    /\ UNCHANGED <<WAITING_USERS, WAITING_BY_TOPIC, ACTIVE_CONNECTIONS,
                   WAITING_SINCE, USER_PREFERENCES, GROUP_CHATS, ALL_USERS,
                   REVEAL_REQUESTS, BANNED_USERS, maintenance_mode, now,
                   connection_timeout, timed_out_pending, warned_for, job_due,
                   max_group_size, banned_words, cancelling,
                   expect_group_name>>

\* what a configuration command leaves alone
ConfigFrame ==
    UNCHANGED <<WAITING_USERS, WAITING_BY_TOPIC, ACTIVE_CONNECTIONS,
                WAITING_SINCE, USER_PREFERENCES, GROUP_CHATS, ALL_USERS,
                REVEAL_REQUESTS, BANNED_USERS, maintenance_mode, now,
                timed_out_pending, warned_for, job_due, cancelling,
                expect_group_name>>

\* the buttons of the configuration menu
TimeoutButtons == {30, 60}

\* arguments of /set_timeout: below the range, inside it, above the default
TimeoutInputs == {4, 30, 60}

\* the /set_timeout command without its range check
set_timeout_unchecked(admin_id, timeout) ==
    \/ ConfigRefused(admin_id)
    \/ /\ is_admin(admin_id)
       /\ connection_timeout' = timeout
       /\ last' = Ev("set_timeout", admin_id, NoUser, "", {})
       /\ ConfigFrame
       /\ UNCHANGED <<max_group_size, banned_words>>

\* admin_system_config, action = "set_timeout": the /set_timeout command
set_timeout(admin_id, timeout) ==
    \/ ConfigRefused(admin_id)
    \/ /\ is_admin(admin_id)
       /\ IF timeout < 5 \/ timeout > 300
          THEN /\ Refused("set_timeout", admin_id, "out_of_range")
               /\ UNCHANGED <<USER_PREFERENCES, ALL_USERS>>
          ELSE /\ connection_timeout' = timeout
               /\ last' = Ev("set_timeout", admin_id, NoUser, "", {})
               /\ UNCHANGED <<WAITING_USERS, WAITING_BY_TOPIC, ACTIVE_CONNECTIONS,
                              WAITING_SINCE, USER_PREFERENCES, GROUP_CHATS,
                              ALL_USERS, REVEAL_REQUESTS, BANNED_USERS,
                              maintenance_mode, now, timed_out_pending, warned_for, job_due,
                              max_group_size, banned_words, cancelling,
                              expect_group_name>>

\* handle_admin_callback, data = "admin_set_timeout_<timeout>"
admin_set_timeout(admin_id, timeout) ==
    \/ NotAdmin("set_timeout", admin_id)
    \/ /\ is_admin(admin_id)
       /\ connection_timeout' = timeout
       /\ last' = Ev("set_timeout", admin_id, NoUser, "", {})
       /\ UNCHANGED <<WAITING_USERS, WAITING_BY_TOPIC, ACTIVE_CONNECTIONS,
                      WAITING_SINCE, USER_PREFERENCES, GROUP_CHATS,
                      ALL_USERS, REVEAL_REQUESTS, BANNED_USERS,
                      maintenance_mode, now, timed_out_pending, warned_for, job_due,
                      max_group_size, banned_words, cancelling,
                      expect_group_name>>

\* the buttons of the configuration menu for the group size
GroupSizeButtons == {5, 10}

\* arguments of /set_group_size: below the range and inside it
GroupSizeInputs == {1, 5}

\* admin_system_config, action = "set_group_size": the /set_group_size command
set_group_size(admin_id, size) ==
    \/ ConfigRefused(admin_id)
    \/ /\ is_admin(admin_id)
       /\ max_group_size' = IF size < 2 \/ size > 50 THEN max_group_size ELSE size
       /\ last' = IF size < 2 \/ size > 50
                  THEN Ev("set_group_size", admin_id, NoUser, "out_of_range", {})
                  ELSE Ev("set_group_size", admin_id, NoUser, "", {})
       /\ ConfigFrame
       /\ UNCHANGED <<connection_timeout, banned_words>>

\* handle_admin_callback, data = "admin_set_group_<size>"
admin_set_group(admin_id, size) ==
    \/ NotAdmin("set_group_size", admin_id)
    \/ /\ is_admin(admin_id)
       /\ max_group_size' = size
       /\ last' = Ev("set_group_size", admin_id, NoUser, "", {})
       /\ ConfigFrame
       /\ UNCHANGED <<connection_timeout, banned_words>>

\* arguments of /add_banned_word and /remove_banned_word
WordInputs == {"spam", "SPAM"}

\* str.lower over the words of WordInputs
Lower(word) == IF word = "SPAM" THEN "spam" ELSE word

\* admin_system_config, action = "add_banned_word"
add_banned_word(admin_id, value) ==
    \/ ConfigRefused(admin_id)
    \/ /\ is_admin(admin_id)
       /\ LET word == Lower(value)
          IN  IF InList(banned_words, word)
              THEN /\ last' = Idle
                   /\ UNCHANGED banned_words
              ELSE /\ banned_words' = Append(banned_words, word)
                   /\ last' = Ev("add_banned_word", admin_id, NoUser, word, {})
       /\ ConfigFrame
       /\ UNCHANGED <<connection_timeout, max_group_size>>

\* admin_system_config, action = "remove_banned_word"
remove_banned_word(admin_id, value) ==
    \/ ConfigRefused(admin_id)
    \/ /\ is_admin(admin_id)
       /\ LET word == Lower(value)
          IN  IF ~InList(banned_words, word)
              THEN /\ last' = Idle
                   /\ UNCHANGED banned_words
              ELSE /\ banned_words' = ListRemove(banned_words, word)
                   /\ last' = Ev("remove_banned_word", admin_id, NoUser, word, {})
       /\ ConfigFrame
       /\ UNCHANGED <<connection_timeout, max_group_size>>

\* time passes
Tick(d) ==
    /\ now + d <= MaxTime
    /\ now' = now + d
    /\ UNCHANGED <<WAITING_USERS, WAITING_BY_TOPIC, ACTIVE_CONNECTIONS,
                   WAITING_SINCE, USER_PREFERENCES, GROUP_CHATS, ALL_USERS,
                   REVEAL_REQUESTS, BANNED_USERS, maintenance_mode, last,
                   connection_timeout, timed_out_pending, warned_for, job_due,
                   max_group_size, banned_words, cancelling,
                   expect_group_name>>

(***************************************************************************)
(* The sweeper as a job: run_repeating(check_timeouts, interval=5, first=0) *)
(***************************************************************************)
SWEEP_INTERVAL == 5

\* how late after its scheduled instant a run of the job may read the clock
MaxJobDelay == 2

\* check_timeouts: a run of the job, on or after its scheduled instant; the
\* next run is scheduled an interval after this one was
check_timeouts ==
    /\ job_due <= now
    /\ check_waiting_timeouts
    /\ job_due' = job_due + SWEEP_INTERVAL

\* one second passes; a run that is due is not put off beyond MaxJobDelay
Second ==
    /\ now + 1 <= job_due + MaxJobDelay
    /\ Tick(1)

(***************************************************************************)
(* Message relay                                                           *)
(***************************************************************************)
\* texts of the messages users send
MessageInputs == {"hello", "spam offer", "SPAM offer"}

\* str.lower over the texts of MessageInputs
LowerText(text) == IF text = "SPAM offer" THEN "spam offer" ELSE text

\* word in text: word is a substring of text, over the words of WordInputs
\* and the texts of MessageInputs
Contains(text, word) ==
    \/ text = word
    \/ <<word, text>> \in {<<"spam", "spam offer">>, <<"SPAM", "SPAM offer">>}

\* a content filter that stops nothing
Blocked_off(user_id, message_text) == FALSE

\* the content moderation of handle_message: a non-admin's message whose
\* lowercased text contains a banned word is not delivered
Blocked(user_id, message_text) ==
    /\ banned_words # <<>>
    /\ ~is_admin(user_id)
    /\ \E i \in DOMAIN banned_words :
           Contains(LowerText(message_text), banned_words[i])

\* handle_message: a text message is relayed to the partner, else to the
\* other members of the sender's group, else answered with a hint; no
\* registry is written
handle_message(user_id, message_text) ==
    IF Denied(user_id)
    THEN /\ Quiet("message", user_id, "denied")
         /\ UNCHANGED <<USER_PREFERENCES, ALL_USERS>>
    ELSE IF Blocked(user_id, message_text)
    THEN /\ Refused("message", user_id, "blocked")
         /\ UNCHANGED <<USER_PREFERENCES, ALL_USERS>>
    ELSE LET prefs == PrefsTouched(USER_PREFERENCES, user_id)
             p == prefs[user_id]
         IN  /\ USER_PREFERENCES' = prefs
             /\ last' = IF user_id \in DOMAIN ACTIVE_CONNECTIONS
                        THEN Ev("message", user_id, ACTIVE_CONNECTIONS[user_id],
                                "relayed", {ACTIVE_CONNECTIONS[user_id]})
                        ELSE IF p.mode = GROUP /\ p.group_id \in DOMAIN GROUP_CHATS
                        THEN [Ev("message", user_id, NoUser, "relayed_group",
                                 GROUP_CHATS[p.group_id].members \ {user_id})
                                 EXCEPT !.g = p.group_id]
                        ELSE Ev("message", user_id, NoUser, "not_in_chat", {})
             /\ UNCHANGED <<WAITING_USERS, WAITING_BY_TOPIC, ACTIVE_CONNECTIONS,
                            WAITING_SINCE, GROUP_CHATS, ALL_USERS, REVEAL_REQUESTS,
                            BANNED_USERS, maintenance_mode, now,
                            connection_timeout, timed_out_pending, warned_for, job_due,
                            max_group_size, banned_words, cancelling,
                            expect_group_name>>

\* the events a user can send to the bot: commands, buttons and messages
InboundEvent(u) ==
    \/ connect(u)
    \/ disconnect(u)
    \/ cancel_search(u)
    \/ \E text \in MessageInputs : handle_message(u, text)
    \/ reveal_identity(u)
    \/ \E r \in Users : reveal_yes(u, r)
    \/ \E r \in Users : reveal_no(u, r)
    \/ mode_one_on_one(u)
    \/ mode_topic(u)
    \/ mode_group(u)
    \/ \E t \in TopicSet : topic_select(u, t)
    \/ \E g \in DOMAIN GROUP_CHATS \cup {NoGroup} : join_group(u, g)
    \/ leave_command(u)

(***************************************************************************)
(* Targeted broadcast: admin_broadcast_message and send_broadcast          *)
(***************************************************************************)
BroadcastTargets == {"all", "active", "waiting", "groups"}

\* list(S): the elements of a set or of a dict's keys, each once
RECURSIVE ListOf(_)
ListOf(S) ==
    IF S = {} THEN <<>>
    ELSE LET x == CHOOSE x \in S : TRUE IN <<x>> \o ListOf(S \ {x})

\* the elements of a list
SeqRange(seq) == {seq[i] : i \in DOMAIN seq}

\* [user_id for topic_users in WAITING_BY_TOPIC.values() for user_id in topic_users]
RECURSIVE TopicWaiters(_)
TopicWaiters(T) ==
    IF T = {} THEN <<>>
    ELSE LET t == CHOOSE t \in T : TRUE
         IN  WAITING_BY_TOPIC[t] \o TopicWaiters(T \ {t})

\* for group in GROUP_CHATS.values(): target_users.extend(list(group.members))
RECURSIVE GroupMembers(_)
GroupMembers(G) ==
    IF G = {} THEN <<>>
    ELSE LET g == CHOOSE g \in G : TRUE
         IN  ListOf(GROUP_CHATS[g].members) \o GroupMembers(G \ {g})

\* the list a target selects, before duplicates are removed
target_users(target) ==
    CASE target = "all"     -> ListOf(ALL_USERS)
      [] target = "active"  -> ListOf(DOMAIN ACTIVE_CONNECTIONS)
      [] target = "waiting" -> WAITING_USERS \o TopicWaiters(DOMAIN WAITING_BY_TOPIC)
      [] target = "groups"  -> GroupMembers(DOMAIN GROUP_CHATS)
      [] OTHER              -> ListOf(ALL_USERS)

\* the target list with its duplicates kept
Deduplicated_keep(seq) == seq

\* target_users = list(set(target_users))
Deduplicated(seq) == ListOf(SeqRange(seq))

\* the loop of send_broadcast: one send per entry of the list, an exception
\* of a send is logged and the loop goes on; failing: whom no send reaches
RECURSIVE SendLoop(_, _)
SendLoop(seq, failing) ==
    IF seq = <<>> THEN [attempts |-> <<>>, sent_count |-> 0]
    ELSE LET rest == SendLoop(Tail(seq), failing)
         IN  [attempts   |-> <<Head(seq)>> \o rest.attempts,
              sent_count |-> rest.sent_count +
                                 (IF Head(seq) \in failing THEN 0 ELSE 1)]

\* send_broadcast(update, context, message, target_users, target_name)
send_broadcast(admin_id, target, target_list, failing) ==
    LET sent == SendLoop(target_list, failing)
    IN  /\ last' = [Ev("broadcast", admin_id, NoUser, target, SeqRange(target_list))
                       EXCEPT !.attempts = sent.attempts,
                              !.sent_count = sent.sent_count]
        /\ UNCHANGED <<WAITING_USERS, WAITING_BY_TOPIC, ACTIVE_CONNECTIONS,
                       WAITING_SINCE, USER_PREFERENCES, GROUP_CHATS, ALL_USERS,
                       REVEAL_REQUESTS, BANNED_USERS, maintenance_mode, now,
                       connection_timeout, timed_out_pending, warned_for, job_due,
                       max_group_size, banned_words, cancelling,
                       expect_group_name>>

\* admin_broadcast_message with a target: /broadcast_all, /broadcast_active,
\* /broadcast_waiting, /broadcast_groups
admin_broadcast_message(admin_id, target, failing) ==
    \/ ConfigRefused(admin_id)
    \/ /\ is_admin(admin_id)
       /\ send_broadcast(admin_id, target, Deduplicated(target_users(target)), failing)

(***************************************************************************)
(* Specifications                                                          *)
(***************************************************************************)
Next ==
    \/ \E u \in Users : connect(u)
    \/ \E u \in Users : disconnect(u)
    \/ \E u \in Users : cancel_search(u)
    \/ \E u \in Users : mode_one_on_one(u)
    \/ \E u \in Users : mode_topic(u)
    \/ \E u \in Users : mode_group(u)
    \/ \E u \in Users, t \in TopicSet : topic_select(u, t)
    \/ \E u \in Users, n \in GroupSizes, r \in RandomSuffixes :
           create_group_chat(u, n, r)
    \/ \E u \in Users, g \in DOMAIN GROUP_CHATS \cup {NoGroup} : join_group(u, g)
    \/ \E u \in Users : leave_command(u)
    \/ \E u \in Users, text \in MessageInputs : handle_message(u, text)
    \/ \E u \in Users : reveal_identity(u)
    \/ \E u, r \in Users : reveal_yes(u, r)
    \/ \E u, r \in Users : reveal_no(u, r)
    \/ \E a, u \in Users : admin_ban(a, u)
    \/ \E a, u \in Users : admin_unban(a, u)
    \/ \E a \in Users : admin_maint_on(a)
    \/ \E a \in Users : admin_maint_off(a)
    \/ check_waiting_timeouts /\ UNCHANGED job_due
    \/ sweep_begin
    \/ \E u \in Users : sweep_evict(u)
    \/ \E a \in Users, T \in TimeoutInputs : set_timeout(a, T)
    \/ \E a \in Users, T \in TimeoutButtons : admin_set_timeout(a, T)
    \/ \E d \in TickSteps : Tick(d)
    \/ check_timeouts
    \/ Second
    \/ \E a \in Users, n \in GroupSizeInputs : set_group_size(a, n)
    \/ \E a \in Users, n \in GroupSizeButtons : admin_set_group(a, n)
    \/ \E a \in Users, w \in WordInputs : add_banned_word(a, w)
    \/ \E a \in Users, w \in WordInputs : remove_banned_word(a, w)

Spec == Init /\ [][Next]_vars

\* matchmaking: the events that touch the waiting queues, and the sweeper
NextMatch ==
    \/ \E u \in Users : connect(u)
    \/ \E u \in Users : disconnect(u)
    \/ \E u \in Users : cancel_search(u)
    \/ \E u \in Users : mode_one_on_one(u)
    \/ \E u \in Users : mode_topic(u)
    \/ \E u \in Users, t \in TopicSet : topic_select(u, t)
    \/ check_waiting_timeouts /\ UNCHANGED job_due
    \/ \E d \in TickSteps : Tick(d)

SpecMatch == Init /\ [][NextMatch]_vars

\* access policy: matching under bans and maintenance
NextAccess ==
    \/ \E u \in Users : connect(u)
    \/ \E u \in Users : mode_one_on_one(u)
    \/ \E u \in Users, t \in TopicSet : topic_select(u, t)
    \/ \E a, u \in Users : admin_ban(a, u)
    \/ \E a \in Users : admin_maint_on(a)
    \/ \E a \in Users : admin_maint_off(a)

SpecAccess == Init /\ [][NextAccess]_vars

\* reveal negotiation between connected users
NextReveal ==
    \/ \E u \in Users : connect(u)
    \/ \E u \in Users : disconnect(u)
    \/ \E u \in Users : reveal_identity(u)
    \/ \E u, r \in Users : reveal_yes(u, r)
    \/ \E u, r \in Users : reveal_no(u, r)
    \/ \E a, u \in Users : admin_ban(a, u)
    \/ \E a, u \in Users : admin_unban(a, u)
    \/ \E a \in Users : admin_maint_on(a)
    \/ \E a \in Users : admin_maint_off(a)

SpecReveal == Init /\ [][NextReveal]_vars

\* group registry
NextGroup ==
    \/ \E u \in Users, n \in GroupSizes, r \in RandomSuffixes :
           create_group_chat(u, n, r)
    \/ \E u \in Users, g \in DOMAIN GROUP_CHATS \cup {NoGroup} : join_group(u, g)
    \/ \E u \in Users : leave_command(u)
    \/ \E a, u \in Users : admin_ban(a, u)

SpecGroup == Init /\ [][NextGroup]_vars

\* a user the bot currently shuts out
ShutOut(u) == ~is_admin(u) /\ (u \in BANNED_USERS \/ maintenance_mode)

\* the events of a user who is shut out, whatever the handler answers
ShutOutEvents ==
    \/ \E u \in Users : ShutOut(u) /\ disconnect(u)
    \/ \E u \in Users : ShutOut(u) /\ cancel_search(u)
    \/ \E u \in Users, text \in MessageInputs : ShutOut(u) /\ handle_message(u, text)
    \/ \E u, r \in Users : ShutOut(u) /\ reveal_yes(u, r)
    \/ \E u, r \in Users : ShutOut(u) /\ reveal_no(u, r)
    \/ \E u \in Users : ShutOut(u) /\ mode_one_on_one(u)
    \/ \E u \in Users : ShutOut(u) /\ mode_topic(u)
    \/ \E u \in Users : ShutOut(u) /\ mode_group(u)
    \/ \E u \in Users, t \in TopicSet : ShutOut(u) /\ topic_select(u, t)
    \/ \E u \in Users : ShutOut(u) /\ leave_command(u)

\* what the ordinary users do to get into a queue, a conversation, a
\* reveal request or a group
EntryEvents ==
    \/ \E u \in Users \ ADMIN_IDS : connect(u)
    \/ \E u \in Users \ ADMIN_IDS : reveal_identity(u)
    \/ \E u \in Users \ ADMIN_IDS, n \in GroupSizes, r \in RandomSuffixes :
           ~ShutOut(u) /\ create_group_chat(u, n, r)
    \/ \E u \in Users \ ADMIN_IDS, g \in DOMAIN GROUP_CHATS \cup {NoGroup} :
           join_group(u, g)

\* banned users: entry events, bans and pardons, and every event of a shut-out user
NextBanned ==
    \/ EntryEvents
    \/ ShutOutEvents
    \/ \E a, u \in Users : admin_ban(a, u)
    \/ \E a, u \in Users : admin_unban(a, u)

SpecBanned == Init /\ [][NextBanned]_vars

\* maintenance: entry events, the maintenance switch, and every event of a
\* shut-out user
NextMaint ==
    \/ EntryEvents
    \/ ShutOutEvents
    \/ \E a \in Users : admin_maint_on(a)
    \/ \E a \in Users : admin_maint_off(a)

SpecMaint == Init /\ [][NextMaint]_vars

\* the sweeper running beside the handlers: its run is cut at its awaits
NextSweep ==
    \/ \E u \in Users : connect(u)
    \/ \E u \in Users : cancel_search(u)
    \/ \E u \in Users, t \in TopicSet : topic_select(u, t)
    \/ sweep_begin
    \/ \E u \in Users : sweep_evict(u)
    \/ \E d \in TickSteps : Tick(d)

SpecSweep == Init /\ [][NextSweep]_vars

\* the warning band: users wait and cancel while the clock advances second
\* by second and the job queue runs the sweeper on its schedule
NextWarn ==
    \/ \E u \in Users \ ADMIN_IDS : connect(u)
    \/ \E u \in Users \ ADMIN_IDS : cancel_search(u)
    \/ check_timeouts
    \/ Second

SpecWarn == Init /\ [][NextWarn]_vars

\* the configured timeout: users wait, the administrator changes
\* connection_timeout by command or button, the sweeper passes
NextConfig ==
    \/ \E u \in Users : connect(u)
    \/ \E u \in Users : cancel_search(u)
    \/ \E a \in Users, T \in TimeoutInputs : set_timeout(a, T)
    \/ \E a \in Users, T \in TimeoutButtons : admin_set_timeout(a, T)
    \/ check_waiting_timeouts /\ UNCHANGED job_due
    \/ \E d \in TickSteps : Tick(d)

SpecConfig == Init /\ [][NextConfig]_vars

\* the configuration commands and dashboard callbacks for both settings,
\* among users who wait
NextTune ==
    \/ \E u \in Users : connect(u)
    \/ \E u \in Users : cancel_search(u)
    \/ \E a \in Users, T \in TimeoutInputs : set_timeout(a, T)
    \/ \E a \in Users, T \in TimeoutButtons : admin_set_timeout(a, T)
    \/ \E a \in Users, n \in GroupSizeInputs : set_group_size(a, n)
    \/ \E a \in Users, n \in GroupSizeButtons : admin_set_group(a, n)

SpecTune == Init /\ [][NextTune]_vars

\* the user who changes mode in the broadcast scenarios and creates the
\* group in the group scenarios
FirstUser == CHOOSE u \in Users \ ADMIN_IDS : \A v \in Users \ ADMIN_IDS : u <= v

\* targeted broadcasts among users who wait, chat and sit in a group
NextBroadcast ==
    \/ \E u \in Users \ ADMIN_IDS : connect(u)
    \/ \E t \in TopicSet : topic_select(FirstUser, t)
    \/ mode_one_on_one(FirstUser)
    \/ \E n \in GroupSizes, r \in RandomSuffixes :
           DOMAIN GROUP_CHATS = {} /\ create_group_chat(FirstUser, n, r)
    \/ \E u \in Users \ ADMIN_IDS, g \in DOMAIN GROUP_CHATS : join_group(u, g)
    \/ \E a \in Users, target \in BroadcastTargets :
           \E failing \in SUBSET (Users \ {a}) :
               admin_broadcast_message(a, target, failing)

SpecBroadcast == Init /\ [][NextBroadcast]_vars

\* messages among users who chat in pairs and in groups, under a word list
\* the admin edits
NextRelay ==
    \/ \E u \in Users : connect(u)
    \/ \E u \in Users : disconnect(u)
    \/ \E n \in GroupSizes, r \in RandomSuffixes :
           DOMAIN GROUP_CHATS = {} /\ create_group_chat(FirstUser, n, r)
    \/ \E u \in Users, g \in DOMAIN GROUP_CHATS : join_group(u, g)
    \/ \E a \in Users, w \in WordInputs : add_banned_word(a, w)
    \/ \E a \in Users, w \in WordInputs : remove_banned_word(a, w)
    \/ \E u \in Users, text \in MessageInputs : handle_message(u, text)

SpecRelay == Init /\ [][NextRelay]_vars

\* /disconnect of a waiting user and the sweeper, each cut at its awaits;
\* updates are handled one at a time, the job runs between their awaits;
\* the two seconds of the animation are no time on the scale of the clock
NextRace ==
    \/ \E u \in Users : cancelling = {} /\ connect(u)
    \/ \E u \in Users, t \in TopicSet : cancelling = {} /\ topic_select(u, t)
    \/ \E u \in Users : cancelling = {} /\ disconnect_begin(u)
    \/ \E u \in Users : disconnect_finish(u)
    \/ sweep_begin
    \/ \E u \in Users : sweep_evict(u)
    \/ \E d \in TickSteps : cancelling = {} /\ Tick(d)

SpecRace == Init /\ [][NextRace]_vars

\* messages in groups whose members join, leave, are banned and unbanned;
\* a group is created while there is none
NextGroupTalk ==
    \/ \E n \in GroupSizes, r \in RandomSuffixes :
           DOMAIN GROUP_CHATS = {} /\ create_group_chat(FirstUser, n, r)
    \/ \E u \in Users \ ADMIN_IDS, g \in DOMAIN GROUP_CHATS : join_group(u, g)
    \/ \E u \in Users \ ADMIN_IDS : leave_command(u)
    \/ \E u \in Users \ ADMIN_IDS : mode_group(u)
    \/ \E a \in Users, u \in Users \ ADMIN_IDS : admin_ban(a, u)
    \/ \E a \in Users, u \in Users \ ADMIN_IDS : admin_unban(a, u)
    \/ \E u \in Users \ ADMIN_IDS, text \in MessageInputs : handle_message(u, text)

SpecGroupTalk == Init /\ [][NextGroupTalk]_vars

\* the inbound events around the creation of a group
NextCreate ==
    \/ \E u \in Users : connect(u)
    \/ \E u \in Users : mode_group(u)
    \/ \E u \in Users : group_create(u)
    \/ \E u \in Users, g \in DOMAIN GROUP_CHATS \cup {NoGroup} : join_group(u, g)
    \/ \E u \in Users : leave_command(u)
    \/ \E u \in Users, text \in MessageInputs : handle_message(u, text)

SpecCreate == Init /\ [][NextCreate]_vars

\* waiting under a sweeper that keeps running while the clock advances:
\* the job is repeated every SWEEP_INTERVAL seconds for as long as the
\* process runs. A wait starts early enough for the clock of the model to
\* reach its timeout.
NextLive ==
    \/ \E u \in Users : now + TIMEOUT_SECONDS < MaxTime /\ connect(u)
    \/ \E u \in Users : cancel_search(u)
    \/ \E u \in Users : mode_one_on_one(u)
    \/ \E u \in Users, t \in TopicSet : topic_select(u, t)
    \/ check_waiting_timeouts /\ UNCHANGED job_due
    \/ \E d \in TickSteps : Tick(d)

SpecLive ==
    /\ Init /\ [][NextLive]_vars
    /\ WF_vars(check_waiting_timeouts /\ UNCHANGED job_due)
    /\ WF_vars(\E d \in TickSteps : Tick(d))

\* the operations of the admin dashboard and the admin commands, as sent
\* by user a, admin or not
AdminOperation(a) ==
    \/ \E u \in Users : admin_ban(a, u)
    \/ \E u \in Users : admin_unban(a, u)
    \/ admin_maint_on(a)
    \/ admin_maint_off(a)
    \/ \E T \in TimeoutInputs : set_timeout(a, T)
    \/ \E T \in TimeoutButtons : admin_set_timeout(a, T)
    \/ \E n \in GroupSizeInputs : set_group_size(a, n)
    \/ \E n \in GroupSizeButtons : admin_set_group(a, n)
    \/ \E w \in WordInputs : add_banned_word(a, w)
    \/ \E w \in WordInputs : remove_banned_word(a, w)

\* access policy: the ordinary users search, talk, ask for reveals, change
\* mode and join and leave groups, and every user, admin or not, tries every
\* admin operation
NextPolicy ==
    \/ \E u \in Users \ ADMIN_IDS : connect(u)
    \/ \E u \in Users \ ADMIN_IDS : disconnect(u)
    \/ \E u \in Users \ ADMIN_IDS : cancel_search(u)
    \/ \E u \in Users \ ADMIN_IDS, text \in MessageInputs : handle_message(u, text)
    \/ \E u \in Users \ ADMIN_IDS : reveal_identity(u)
    \/ \E u \in Users \ ADMIN_IDS, r \in Users : reveal_yes(u, r)
    \/ \E u \in Users \ ADMIN_IDS, r \in Users : reveal_no(u, r)
    \/ \E u \in Users \ ADMIN_IDS : mode_one_on_one(u)
    \/ \E u \in Users \ ADMIN_IDS : mode_topic(u)
    \/ \E u \in Users \ ADMIN_IDS : mode_group(u)
    \/ \E u \in Users \ ADMIN_IDS, g \in DOMAIN GROUP_CHATS \cup {NoGroup} :
           join_group(u, g)
    \/ \E u \in Users \ ADMIN_IDS : leave_command(u)
    \/ \E a \in Users : AdminOperation(a)

SpecPolicy == Init /\ [][NextPolicy]_vars

(***************************************************************************)
(* Properties                                                              *)
(***************************************************************************)
\* C1: in every reachable state each user is in at most one of the global
\* waiting queue, a topic waiting queue, the active-connection table and a
\* group's member set.
C1_AtMostOnePlace ==
    \A u \in Users :
        LET places == <<InList(WAITING_USERS, u),
                        \E t \in TopicSet : InList(WAITING_BY_TOPIC[t], u),
                        u \in DOMAIN ACTIVE_CONNECTIONS,
                        \E g \in DOMAIN GROUP_CHATS : u \in GROUP_CHATS[g].members>>
        IN  Cardinality({k \in 1..4 : places[k]}) <= 1

\* C2: the active-connection table is symmetric in every reachable state:
\* whenever it maps u to v it maps v to u.
C2_Symmetric ==
    \A u \in DOMAIN ACTIVE_CONNECTIONS :
        /\ ACTIVE_CONNECTIONS[u] \in DOMAIN ACTIVE_CONNECTIONS
        /\ ACTIVE_CONNECTIONS[ACTIVE_CONNECTIONS[u]] = u

\* C3: find_partner never returns the requester, whatever random.choice
\* picks and however often the searched queue holds the requester's id, and
\* no active-connection entry maps a user to themself.
C3_NoSelfMatch ==
    /\ \A u \in Users : \A r \in ChoiceRange(u) : find_partner(u, r) # u
    /\ \A u \in DOMAIN ACTIVE_CONNECTIONS : ACTIVE_CONNECTIONS[u] # u

\* C3 witness: connect ran for a user whose id the topic queue held twice;
\* random.choice could only pick that id, and the user was enqueued a third
\* time instead of being matched.
C3_Witness ==
    /\ last.op = "connect" /\ last.res = "enqueued"
    /\ \E t \in TopicSet :
           Cardinality({i \in 1..Len(WAITING_BY_TOPIC[t]) :
                           WAITING_BY_TOPIC[t][i] = last.u}) >= 3
    /\ last.u \notin DOMAIN ACTIVE_CONNECTIONS

\* C4: a match of a with b followed immediately by disconnect(a) leaves
\* neither in the active-connection table and both users' preferences equal
\* to the defaults.
C4_DisconnectRestoresDefaults ==
    [][\A a, b \in Users :
          (/\ last \in {Ev("connect", a, b, "matched", {}),
                        Ev("connect", b, a, "matched", {})}
           /\ last' = Ev("disconnect", a, b, "disconnected", {}))
          => /\ a \notin DOMAIN ACTIVE_CONNECTIONS'
             /\ b \notin DOMAIN ACTIVE_CONNECTIONS'
             /\ a \in DOMAIN USER_PREFERENCES' /\ USER_PREFERENCES'[a] = DefaultPrefs
             /\ b \in DOMAIN USER_PREFERENCES' /\ USER_PREFERENCES'[b] = DefaultPrefs
      ]_vars

\* C5: a sweep that runs while a user's wait has exceeded the hard timeout
\* leaves that user in no waiting queue and without a timestamp, and names
\* the user in its timeout notifications.
C5_SweepEvicts ==
    [][check_waiting_timeouts =>
          \A u \in DOMAIN WAITING_SINCE :
              Elapsed(u) > TIMEOUT_SECONDS =>
                  /\ ~InList(WAITING_USERS', u)
                  /\ \A t \in TopicSet : ~InList(WAITING_BY_TOPIC'[t], u)
                  /\ u \notin DOMAIN WAITING_SINCE'
                  /\ u \in last'.users
      ]_vars

\* C6: enabling maintenance mode removes both directed entries of every
\* connection between two non-admins and leaves every entry of a connection
\* that involves an admin as it was.
C6_MaintenanceSparesAdmins ==
    [][(\E a \in ADMIN_IDS : toggle_maintenance_mode(a, TRUE)) =>
          \A u \in DOMAIN ACTIVE_CONNECTIONS :
              LET v == ACTIVE_CONNECTIONS[u]
              IN  IF is_admin(u) \/ is_admin(v)
                  THEN /\ u \in DOMAIN ACTIVE_CONNECTIONS'
                       /\ ACTIVE_CONNECTIONS'[u] = v
                  ELSE /\ u \notin DOMAIN ACTIVE_CONNECTIONS'
                       /\ v \notin DOMAIN ACTIVE_CONNECTIONS'
      ]_vars

\* C7 as stated: once the partner of a pending reveal request declines or
\* accepts it, the reveal-request map has no entry for either party, and a
\* new request by the still-connected requester is accepted.
C7_AsStated ==
    [][\A u, r \in Users :
          /\ (/\ r \in DOMAIN REVEAL_REQUESTS
              /\ REVEAL_REQUESTS[r].partner_id = u
              /\ last' \in {Ev("reveal_no", u, r, "declined", {}),
                            Ev("reveal_yes", u, r, "revealed", {})})
             => /\ r \notin DOMAIN REVEAL_REQUESTS'
                /\ u \notin DOMAIN REVEAL_REQUESTS'
          /\ (/\ last \in {Ev("reveal_no", u, r, "declined", {}),
                           Ev("reveal_yes", u, r, "revealed", {})}
              /\ r \in DOMAIN ACTIVE_CONNECTIONS /\ ~Denied(r)
              /\ reveal_identity(r))
             => /\ last' = Ev("reveal", r, ACTIVE_CONNECTIONS[r], "requested", {})
                /\ r \in DOMAIN REVEAL_REQUESTS'
      ]_vars

\* C7 amended: once the partner of a pending reveal request declines or
\* accepts it, the map has no entry for the requester and every other entry,
\* the partner's own pending request included, is as it was; a new request
\* by the still-connected requester is then accepted and pending.
C7_RequesterEntryCleared ==
    [][\A u, r \in Users :
          /\ (/\ r \in DOMAIN REVEAL_REQUESTS
              /\ REVEAL_REQUESTS[r].partner_id = u
              /\ (reveal_no(u, r) \/ reveal_yes(u, r))
              /\ last'.op \in {"reveal_no", "reveal_yes"})
             => /\ r \notin DOMAIN REVEAL_REQUESTS'
                /\ REVEAL_REQUESTS' = DictDel(REVEAL_REQUESTS, r)
          /\ (/\ last \in {Ev("reveal_no", u, r, "declined", {}),
                           Ev("reveal_yes", u, r, "revealed", {})}
              /\ r \in DOMAIN ACTIVE_CONNECTIONS /\ ~Denied(r)
              /\ reveal_identity(r))
             => /\ last' = Ev("reveal", r, ACTIVE_CONNECTIONS[r], "requested", {})
                /\ r \in DOMAIN REVEAL_REQUESTS'
                /\ REVEAL_REQUESTS'[r] =
                       [partner_id |-> ACTIVE_CONNECTIONS[r], status |-> "pending"]
      ]_vars

\* C7 witness: the partner declined a request while the partner's own
\* request was pending; the requester has no entry, the partner's stays.
C7_Witness ==
    /\ last.op = "reveal_no" /\ last.res = "declined"
    /\ last.p \notin DOMAIN REVEAL_REQUESTS
    /\ last.u \in DOMAIN REVEAL_REQUESTS
    /\ REVEAL_REQUESTS[last.u].partner_id = last.p
    /\ last.p \in DOMAIN ACTIVE_CONNECTIONS /\ ACTIVE_CONNECTIONS[last.p] = last.u

\* C8: for distinct users creator and other, from any reachable registry,
\* create_group_chat(creator), add_to_group(other, id), leave_group(creator, id)
\* returns "transferred" with the group's creator equal to other, and a
\* further leave_group(other, id) returns "deleted" with the id gone.
C8_RoundTrip ==
    \A creator, other \in Users : \A n \in GroupSizes, r \in RandomSuffixes :
        creator # other =>
            LET id == generate_group_id(r)
                c == GroupCreated(GROUP_CHATS, USER_PREFERENCES, creator, n, id)
                j == add_to_group(c.groups, c.prefs, other, id)
            IN  /\ j.ok
                /\ \A h \in Heirs(j.groups, creator, id) :
                       LET l == leave_group(j.groups, j.prefs, creator, id, h)
                       IN  /\ l.res = "transferred"
                           /\ id \in DOMAIN l.groups
                           /\ l.groups[id].creator_id = other
                           /\ \A h2 \in Heirs(l.groups, other, id) :
                                  LET m == leave_group(l.groups, l.prefs, other, id, h2)
                                  IN  /\ m.res = "deleted"
                                      /\ id \notin DOMAIN m.groups

\* C8 witness: the creator of a two-member group left it, and the other
\* member is now its creator and only member.
C8_Witness ==
    /\ last.op = "leave" /\ last.res = "transferred"
    /\ last.g \in DOMAIN GROUP_CHATS
    /\ GROUP_CHATS[last.g].creator_id = last.p
    /\ GROUP_CHATS[last.g].members = {last.p}
    /\ last.p # last.u

\* C9: cancel_search applied a second time in a row by the same user leaves
\* queues, timestamps, connections and preferences as the first left them.
C9_CancelIdempotent ==
    [][\A u \in Users :
          (/\ last = Ev("cancel_search", u, NoUser, "cancelled", {})
           /\ cancel_search(u))
          => UNCHANGED <<WAITING_USERS, WAITING_BY_TOPIC, WAITING_SINCE,
                         ACTIVE_CONNECTIONS, USER_PREFERENCES>>
      ]_vars

\* C10: with every waiting queue empty, connect by A in ONE_ON_ONE mode puts
\* A alone in the global queue with a timestamp; connect by B in ONE_ON_ONE
\* mode then selects A, both directed entries exist, and the global queue
\* and the timestamp map are empty.
C10_TwoUsersPair ==
    [][\A A, B \in Users :
          LET searches(x) ==
                  /\ get_user_preference(USER_PREFERENCES, x).mode = ONE_ON_ONE
                  /\ x \notin DOMAIN ACTIVE_CONNECTIONS
                  /\ ~Denied(x)
              topicsEmpty == \A t \in TopicSet : WAITING_BY_TOPIC[t] = <<>>
          IN  /\ (/\ WAITING_USERS = <<>> /\ topicsEmpty
                  /\ searches(A) /\ connect(A))
                 => /\ last' = Ev("connect", A, NoUser, "enqueued", {})
                    /\ WAITING_USERS' = <<A>>
                    /\ A \in DOMAIN WAITING_SINCE' /\ WAITING_SINCE'[A] = now
              /\ (/\ last = Ev("connect", A, NoUser, "enqueued", {})
                  /\ WAITING_USERS = <<A>> /\ topicsEmpty
                  /\ B # A /\ searches(B) /\ connect(B))
                 => /\ last' = Ev("connect", B, A, "matched", {})
                    /\ A \in DOMAIN ACTIVE_CONNECTIONS'
                    /\ B \in DOMAIN ACTIVE_CONNECTIONS'
                    /\ ACTIVE_CONNECTIONS'[A] = B
                    /\ ACTIVE_CONNECTIONS'[B] = A
                    /\ WAITING_USERS' = <<>>
                    /\ WAITING_SINCE' = EmptyDict
      ]_vars

\* C11: every group in the registry has a non-empty member set that
\* contains its creator_id.
C11_CreatorIsMember ==
    \A g \in DOMAIN GROUP_CHATS :
        /\ GROUP_CHATS[g].members # {}
        /\ GROUP_CHATS[g].creator_id \in GROUP_CHATS[g].members

\* C12: every group's member count is at most its max_size.
C12_SizeWithinMax ==
    \A g \in DOMAIN GROUP_CHATS :
        Cardinality(GROUP_CHATS[g].members) <= GROUP_CHATS[g].max_size

\* C12 witness: a join has just filled a group to its max_size.
C12_Witness ==
    /\ last.op = "join_group" /\ last.res = "joined"
    /\ last.g \in DOMAIN GROUP_CHATS
    /\ last.u \in GROUP_CHATS[last.g].members
    /\ Cardinality(GROUP_CHATS[last.g].members) = GROUP_CHATS[last.g].max_size
    /\ Users \ GROUP_CHATS[last.g].members # {}

\* C13: whenever a reveal request from r naming p is in the map, r and p
\* are an active connection pair.
C13_RequestOnlyWhileConnected ==
    \A r \in DOMAIN REVEAL_REQUESTS :
        LET p == REVEAL_REQUESTS[r].partner_id
        IN  /\ r \in DOMAIN ACTIVE_CONNECTIONS /\ ACTIVE_CONNECTIONS[r] = p
            /\ p \in DOMAIN ACTIVE_CONNECTIONS /\ ACTIVE_CONNECTIONS[p] = r

\* C14: in every stored preference the topic is set only when the mode is
\* TOPIC, and is then one of the fixed topics; the group id is set only when
\* the mode is GROUP, and then names a group of the registry.
C14_PreferenceWellFormed ==
    \A u \in DOMAIN USER_PREFERENCES :
        LET p == USER_PREFERENCES[u]
        IN  /\ p.topic # NoTopic => (p.mode = TOPIC /\ p.topic \in TopicSet)
            /\ p.group_id # NoGroup =>
                   (p.mode = GROUP /\ p.group_id \in DOMAIN GROUP_CHATS)

\* C15: after ban_user of a known user u, u is in the ban set, neither u
\* nor u's former partner has an active-connection entry, u is in no waiting
\* queue and has no waiting timestamp, u is a member of no group, and no
\* group with an empty member set is in the registry.
C15_BanCleansUp ==
    [][\A a \in ADMIN_IDS, u \in Users :
          (u \in ALL_USERS /\ ban_user(a, u)) =>
              /\ u \in BANNED_USERS'
              /\ u \notin DOMAIN ACTIVE_CONNECTIONS'
              /\ u \in DOMAIN ACTIVE_CONNECTIONS =>
                     ACTIVE_CONNECTIONS[u] \notin DOMAIN ACTIVE_CONNECTIONS'
              /\ ~InList(WAITING_USERS', u)
              /\ \A t \in TopicSet : ~InList(WAITING_BY_TOPIC'[t], u)
              /\ u \notin DOMAIN WAITING_SINCE'
              /\ \A g \in DOMAIN GROUP_CHATS' :
                     /\ u \notin GROUP_CHATS'[g].members
                     /\ GROUP_CHATS'[g].members # {}
      ]_vars

\* C16: while a non-admin user is banned, no event of that user (connect,
\* disconnect, cancel search, message, reveal request or response, mode or
\* topic change, group join or leave) changes the waiting queues, the
\* active-connection table, the group registry or the reveal-request map.
C16_BannedEventsChangeNothing ==
    [][\A u \in Users :
          (u \in BANNED_USERS /\ ~is_admin(u) /\ InboundEvent(u)) =>
              UNCHANGED <<WAITING_USERS, WAITING_BY_TOPIC, ACTIVE_CONNECTIONS,
                          GROUP_CHATS, REVEAL_REQUESTS>>
      ]_vars

\* a banned user who is still listed in a queue or the connection table
\* has just been turned away
C16_Witness ==
    /\ last.op = "denied"
    /\ last.u \in BANNED_USERS
    /\ ~is_admin(last.u)
    /\ ~maintenance_mode
    /\ \/ InList(WAITING_USERS, last.u)
       \/ last.u \in DOMAIN ACTIVE_CONNECTIONS
       \/ last.u \in DOMAIN REVEAL_REQUESTS

\* C17: while maintenance mode is enabled, no event of a non-admin user
\* changes the waiting queues, the active-connection table, the group
\* registry, the reveal-request map or any user's preference, and every such
\* event is answered with a denial.
C17_MaintenanceDeniesAll ==
    [][\A u \in Users :
          (maintenance_mode /\ ~is_admin(u) /\ InboundEvent(u)) =>
              /\ UNCHANGED <<WAITING_USERS, WAITING_BY_TOPIC, ACTIVE_CONNECTIONS,
                             GROUP_CHATS, REVEAL_REQUESTS, USER_PREFERENCES>>
              /\ last'.op = "denied"
      ]_vars

\* C18: with the sweeper interleaving with the handlers at its awaits, the
\* sweeper removes a user from a queue and sends the timeout notification
\* only if, at the moment of removal, the user is still in a waiting queue and
\* the timestamp of the current wait is older than the hard timeout.
C18_EvictsOnlyOverdueWaiters ==
    [][\A u \in Users :
          (sweep_evict(u) \/ (sweep_begin /\ last'.op = "timeout" /\ last'.p = u)) =>
              /\ InList(WAITING_USERS, u) \/ \E t \in TopicSet : InList(WAITING_BY_TOPIC[t], u)
              /\ u \in DOMAIN WAITING_SINCE
              /\ Elapsed(u) > TIMEOUT_SECONDS
      ]_vars

\* C19: for each wait the sweeper sends the 'still searching' warning at
\* most once: a pass that finds the user's elapsed time inside the warning
\* band does not warn a user who was already warned for the same wait.
C19_WarnedOncePerWait ==
    [][\A u \in Users :
          (check_timeouts /\ u \in DOMAIN warned_for /\ u \in DOMAIN WAITING_SINCE
              /\ warned_for[u] = WAITING_SINCE[u]) =>
                  u \notin last'.warned
      ]_vars

\* C20: the eviction threshold of the sweeper is the configured
\* connection_timeout: with connection_timeout = T, 5 <= T <= 300, a pass
\* evicts a waiting user exactly when that user's elapsed wait exceeds T.
C20_ThresholdIsConfigured ==
    [][(check_waiting_timeouts /\ connection_timeout \in 5..300) =>
          \A u \in DOMAIN WAITING_SINCE :
              (u \notin DOMAIN WAITING_SINCE') <=> (Elapsed(u) > connection_timeout)
      ]_vars

\* C21: the ban set, the maintenance flag, the banned-word list, the
\* connection timeout and the group-size setting change only in a step that
\* is an admin operation sent by a user of the admin set.
C21_PolicyChangedByAdminsOnly ==
    [][(<<BANNED_USERS, maintenance_mode, banned_words, connection_timeout,
          max_group_size>>' #
        <<BANNED_USERS, maintenance_mode, banned_words, connection_timeout,
          max_group_size>>) =>
           \E a \in ADMIN_IDS : AdminOperation(a)
      ]_vars

\* a non-admin has just been refused a configuration command while the
\* policy state differs from the shipped one
C21_Witness ==
    /\ last.op = "no_permission"
    /\ ~is_admin(last.u)
    /\ BANNED_USERS # {}
    /\ banned_words # <<>>
    /\ connection_timeout # DEFAULT_CONNECTION_TIMEOUT

\* C22: after a wait cancellation (cancel_search, or disconnect sent while
\* not connected) the user is in no waiting queue, global or topic, and has
\* no waiting timestamp, whatever the user's mode and topic preference.
C22_CancelLeavesNoQueue ==
    [][\A u \in Users :
          (~Denied(u) /\ (cancel_search(u) \/
                          (u \notin DOMAIN ACTIVE_CONNECTIONS /\ disconnect(u)))) =>
              /\ ~InList(WAITING_USERS', u)
              /\ \A t \in TopicSet : ~InList(WAITING_BY_TOPIC'[t], u)
              /\ u \notin DOMAIN WAITING_SINCE'
      ]_vars

\* C23: a connect request from a user who is already waiting in some queue,
\* global or topic, or who is already connected, leaves the queues, the
\* timestamps and the connection table unchanged.
C23_ConnectRejectedWhenBusy ==
    [][\A u \in Users :
          (/\ \/ InList(WAITING_USERS, u)
              \/ \E t \in TopicSet : InList(WAITING_BY_TOPIC[t], u)
              \/ u \in DOMAIN ACTIVE_CONNECTIONS
           /\ connect(u)) =>
              UNCHANGED <<WAITING_USERS, WAITING_BY_TOPIC, WAITING_SINCE,
                          ACTIVE_CONNECTIONS>>
      ]_vars

\* C24: immediately after a successful match of requester a with partner b,
\* neither a nor b is in a waiting queue, global or topic, and neither has a
\* waiting timestamp.
C24_MatchDequeuesBoth ==
    [][\A a, b \in Users :
          (connect(a) /\ last'.op = "connect" /\ last'.res = "matched"
              /\ last'.u = a /\ last'.p = b) =>
              \A x \in {a, b} :
                  /\ ~InList(WAITING_USERS', x)
                  /\ \A t \in TopicSet : ~InList(WAITING_BY_TOPIC'[t], x)
                  /\ x \notin DOMAIN WAITING_SINCE'
      ]_vars

C26_RevealRequestOutcome ==
    [][\A u \in Users :
          (~Denied(u) /\ reveal_identity(u)) =>
              IF u \in DOMAIN REVEAL_REQUESTS
              THEN last'.res = "already_pending" /\ UNCHANGED REVEAL_REQUESTS
              ELSE IF u \notin DOMAIN ACTIVE_CONNECTIONS
              THEN last'.res = "not_connected" /\ UNCHANGED REVEAL_REQUESTS
              ELSE REVEAL_REQUESTS' =
                       DictPut(REVEAL_REQUESTS, u,
                               [partner_id |-> ACTIVE_CONNECTIONS[u],
                                status |-> "pending"])
      ]_vars

\* C27: a reveal response, accept or decline, of user p naming requester r
\* clears r's pending request only if that request names p as its partner;
\* a response of any other user, or for a request that does not exist,
\* fails and leaves the reveal-request map unchanged.
C27_OnlyPartnerResponds ==
    [][\A p, r \in Users :
          (/\ ~Denied(p)
           /\ reveal_yes(p, r) \/ reveal_no(p, r)
           /\ ~(r \in DOMAIN REVEAL_REQUESTS /\ REVEAL_REQUESTS[r].partner_id = p)) =>
              /\ UNCHANGED REVEAL_REQUESTS
              /\ last'.res \notin {"revealed", "declined"}
      ]_vars

\* C28: set_user_preference treats an explicit null as a value: a call that
\* passes topic = None and group_id = None, as disconnect_users and
\* leave_group do, stores None in both fields, whatever was stored before
\* and whatever mode is passed.
C28_ExplicitNullStored ==
    \A u \in DOMAIN USER_PREFERENCES :
        \A mode \in {NoMode, ONE_ON_ONE, TOPIC, GROUP} :
            LET stored == set_user_preference(USER_PREFERENCES, u, mode,
                                              NoTopic, NoGroup)[u]
            IN  stored.topic = NoTopic /\ stored.group_id = NoGroup

\* C29: leave_group by a non-member fails and changes nothing; by a member
\* it removes the user and returns "deleted" exactly when no member remains
\* (the group leaves the registry), "transferred" exactly when the leaver
\* was the creator and members remain (the new creator is one of them) and
\* "left" otherwise (creator unchanged); after "transferred" and "left" the
\* leaver's preference is mode ONE_ON_ONE with no group id.
C29_LeaveOutcomes ==
    \A u \in Users : \A g \in DOMAIN GROUP_CHATS \cup {NoGroup} :
        \A h \in Heirs(GROUP_CHATS, u, g) :
            LET l == leave_group(GROUP_CHATS, USER_PREFERENCES, u, g, h)
            IN  IF ~(g \in DOMAIN GROUP_CHATS /\ u \in GROUP_CHATS[g].members)
                THEN /\ l.res = "False"
                     /\ l.groups = GROUP_CHATS
                     /\ l.prefs = USER_PREFERENCES
                ELSE LET remaining == GROUP_CHATS[g].members \ {u}
                         wasCreator == u = GROUP_CHATS[g].creator_id
                     IN  /\ l.res \in {"deleted", "transferred", "left"}
                         /\ l.res = "deleted" <=> remaining = {}
                         /\ l.res = "transferred" <=> (wasCreator /\ remaining # {})
                         /\ l.res = "deleted" => g \notin DOMAIN l.groups
                         /\ l.res # "deleted" =>
                                /\ g \in DOMAIN l.groups
                                /\ l.groups[g].members = remaining
                                /\ l.prefs[u].mode = ONE_ON_ONE
                                /\ l.prefs[u].group_id = NoGroup
                         /\ l.res = "transferred" => l.groups[g].creator_id \in remaining
                         /\ l.res = "left" =>
                                l.groups[g].creator_id = GROUP_CHATS[g].creator_id

\* C30: a create_group_chat step uses an id that no group in the registry
\* has, leaves every group already registered as it was, gives the new
\* group exactly the creator as its member set, and sets the creator's
\* preference to mode GROUP with the new id as its group id.
C30_CreateUsesFreshId ==
    [][\A u \in Users :
          (\E s \in GroupSizes : \E r \in RandomSuffixes : create_group_chat(u, s, r)) =>
              /\ last'.g \notin DOMAIN GROUP_CHATS
              /\ \A g \in DOMAIN GROUP_CHATS :
                     g \in DOMAIN GROUP_CHATS' /\ GROUP_CHATS'[g] = GROUP_CHATS[g]
              /\ GROUP_CHATS'[last'.g].members = {u}
              /\ USER_PREFERENCES'[u].mode = GROUP
              /\ USER_PREFERENCES'[u].group_id = last'.g]_vars

C32_BroadcastOncePerTarget ==
    [][\A a \in ADMIN_IDS : \A target \in BroadcastTargets :
          \A failing \in SUBSET (Users \ {a}) :
              admin_broadcast_message(a, target, failing) =>
                  LET T == CASE target = "all"     -> ALL_USERS
                             [] target = "active"  -> DOMAIN ACTIVE_CONNECTIONS
                             [] target = "waiting" ->
                                    {u \in Users :
                                        \/ InList(WAITING_USERS, u)
                                        \/ \E t \in DOMAIN WAITING_BY_TOPIC :
                                               InList(WAITING_BY_TOPIC[t], u)}
                             [] target = "groups"  ->
                                    UNION {GROUP_CHATS[g].members : g \in DOMAIN GROUP_CHATS}
                      tried == last'.attempts
                  IN  /\ \A u \in Users :
                             Cardinality({i \in DOMAIN tried : tried[i] = u}) =
                                 (IF u \in T THEN 1 ELSE 0)
                      /\ last'.sent_count = Cardinality(T \ failing)]_vars

C32_Witness ==
    /\ last.op = "broadcast"
    /\ last.res = "waiting"
    /\ Len(last.attempts) = 1
    /\ last.sent_count = 0
    /\ \E u \in Users : InList(WAITING_USERS, u) /\
           \E t \in DOMAIN WAITING_BY_TOPIC : InList(WAITING_BY_TOPIC[t], u)

\* C33: a message of a non-admin that contains a word of the banned-word
\* list is relayed to nobody; a message of an admin is relayed whatever the
\* list holds; a relayed message goes to the sender's partner if the sender
\* is connected, else to every other member of the sender's group, and
\* never to the sender.
C33_FilteredRelay ==
    [][\A u \in Users : \A text \in MessageInputs :
          handle_message(u, text) =>
              LET p == get_user_preference(USER_PREFERENCES, u)
                  R == IF u \in DOMAIN ACTIVE_CONNECTIONS
                       THEN {ACTIVE_CONNECTIONS[u]}
                       ELSE IF p.mode = GROUP /\ p.group_id \in DOMAIN GROUP_CHATS
                       THEN GROUP_CHATS[p.group_id].members \ {u}
                       ELSE {}
                  banned == \E i \in DOMAIN banned_words : Contains(text, banned_words[i])
              IN  /\ (~is_admin(u) /\ banned) => last'.users = {}
                  /\ (is_admin(u) /\ ~Denied(u)) => last'.users = R
                  /\ last'.users \in {{}, R}
                  /\ last'.res \in {"relayed", "relayed_group"} => last'.users = R
                  /\ u \notin last'.users]_vars

C33_Witness ==
    /\ last.op = "message"
    /\ last.res = "blocked"
    /\ last.u \in DOMAIN ACTIVE_CONNECTIONS
    /\ ACTIVE_CONNECTIONS[last.u] # last.u

\* C34: a /disconnect that found its user waiting in the global queue ends
\* without an error and with the user in no queue and without a waiting
\* timestamp, also when the sweeper evicted the user in between.
C34_DisconnectCompletes ==
    [][\A u \in Users :
          disconnect_finish(u) =>
              /\ last'.res # "error"
              /\ ~InList(WAITING_USERS', u)
              /\ \A t \in DOMAIN WAITING_BY_TOPIC' : ~InList(WAITING_BY_TOPIC'[t], u)
              /\ u \notin DOMAIN WAITING_SINCE']_vars

\* C35: under a sweeper that keeps running while time advances, a user who
\* is in a waiting queue is eventually in no waiting queue.
C35_NoEternalWaiter ==
    \A u \in Users :
        (InList(WAITING_USERS, u) \/
         \E t \in DOMAIN WAITING_BY_TOPIC : InList(WAITING_BY_TOPIC[t], u))
        ~> (~InList(WAITING_USERS, u) /\
            \A t \in DOMAIN WAITING_BY_TOPIC : ~InList(WAITING_BY_TOPIC[t], u))

\* C36: a user has a waiting timestamp exactly when the user is in some
\* waiting queue, the global one or a topic queue.
C36_TimestampIffQueued ==
    \A u \in Users :
        u \in DOMAIN WAITING_SINCE <=>
            (InList(WAITING_USERS, u) \/
             \E t \in DOMAIN WAITING_BY_TOPIC : InList(WAITING_BY_TOPIC[t], u))

\* C37: no waiting queue holds the same user more than once.
C37_NoDuplicateInQueue ==
    /\ \A i, j \in DOMAIN WAITING_USERS :
           WAITING_USERS[i] = WAITING_USERS[j] => i = j
    /\ \A t \in DOMAIN WAITING_BY_TOPIC :
           \A i, j \in DOMAIN WAITING_BY_TOPIC[t] :
               WAITING_BY_TOPIC[t][i] = WAITING_BY_TOPIC[t][j] => i = j

\* C38: a message is relayed to the members of a group only when its
\* sender is in the member set of that group at that moment.
C38_OnlyMembersRelay ==
    [][\A u \in Users : \A text \in MessageInputs :
          (handle_message(u, text) /\ last'.res = "relayed_group") =>
              /\ last'.g \in DOMAIN GROUP_CHATS
              /\ u \in GROUP_CHATS[last'.g].members]_vars

\* C39: while maintenance mode is enabled, every connection of the table
\* has an admin as one of its two parties.
C39_MaintenanceKeepsNoOrdinaryPair ==
    maintenance_mode =>
        \A u \in DOMAIN ACTIVE_CONNECTIONS :
            is_admin(u) \/ is_admin(ACTIVE_CONNECTIONS[u])

C39_Witness ==
    /\ maintenance_mode
    /\ last.op = "connect"
    /\ last.res = "matched"
    /\ is_admin(last.u)
    /\ last.p \in DOMAIN ACTIVE_CONNECTIONS
    /\ ~is_admin(last.p)

\* C40: when a user has chosen the create-group action and then sends a
\* text message, the group registry afterwards contains a group whose
\* creator and only member is that user.
C40_GroupCreatedByEvents ==
    [][\A u \in Users : \A text \in MessageInputs :
          (u \in expect_group_name /\ ~Denied(u) /\ handle_message(u, text)) =>
              \E g \in DOMAIN GROUP_CHATS' :
                  /\ GROUP_CHATS'[g].creator_id = u
                  /\ GROUP_CHATS'[g].members = {u}]_vars

====
